---- MODULE Spec2Model ----
(***************************************************************************)
(* asana-tasks-sorter: the due-date categorizer (Task.GetTaskCategory),    *)
(* the move planner (core.CalculateTaskMoves), the run against the service *)
(* (core.OrganizeTasks), the configuration loader                          *)
(* (config.LoadConfiguration) and the display (ui.DisplayTasks).           *)
(*                                                                         *)
(* Time.  An instant is an integer number of hours since 00:00 UTC of day  *)
(* 0 of the model's calendar.  A time.Time is an instant together with a   *)
(* location; a location is a base UTC offset plus at most one daylight     *)
(* saving transition, which happens inside local day transDay (never at    *)
(* local midnight) and changes the offset by dst hours, so that local day  *)
(* transDay lasts 24 - dst hours.                                          *)
(***************************************************************************)
EXTENDS Integers, Sequences, FiniteSets

VARIABLES
    tasks,             \* []asana.Task: the task list handed to the callee
    config,            \* core.SectionConfig
    sectionNameToGID,  \* map[string]string: section name -> section GID
    ignoredSections,   \* map[string]bool built by CreateIgnoredSectionsMap: the names mapped to true
    now,               \* the reference time.Time: its instant
    loc,               \* the reference time.Time: its location (now.Location())
    pc,                \* position of the caller / callee
    idx,               \* CalculateTaskMoves: index of the next task of the range loop
    moves,             \* CalculateTaskMoves: the local slice `moves`
    results,           \* the values returned so far, in call order
    calls,             \* log of the asana.API client calls that have returned, in order
    dryRun,            \* OrganizeTasks: the dryRun argument
    cancelled,         \* whether the run's context is done (cancelled or past its deadline)
    remoteSections,    \* the service: the sections of the user's task list, in order
    remoteTasks,       \* the service: the incomplete tasks of the user's task list
    sections,          \* OrganizeTasks: the local slice `sections`
    categorizedTasks,  \* OrganizeTasks: the local map `categorizedTasks`
    errors,            \* ExecuteTaskMoves: the local counter `errors`
    ret,               \* what OrganizeTasks returned: (map, error)
    inflight,          \* the write request the client waits on, sent and not yet answered
    run,               \* how many times the program has been started
    prevRun,           \* what the previous run of the program did
    configFile,        \* main: the value of the --config flag
    fileData,          \* the file system: what os.ReadFile gives for the path configFile
    categoryToSection, \* DisplayTasks: the argument categoryToSection
    pending,           \* DisplayTasks: the keys the range loop has not visited yet
    printed,           \* what has been written to standard output, in order
    totalTasks,        \* DisplayTasks: the local counter `totalTasks`
    sectionsWithTasks  \* DisplayTasks: the local counter `sectionsWithTasks`

\* the state of a run of OrganizeTasks beyond the planner's
orch == <<dryRun, cancelled, remoteSections, remoteTasks, sections,
          categorizedTasks, errors, ret, inflight>>

\* the state of main around OrganizeTasks: earlier runs, the configuration
\* file, the display
ext == <<run, prevRun, configFile, fileData, categoryToSection, pending, printed,
         totalTasks, sectionsWithTasks>>

\* the same without standard output
extRest == <<run, prevRun, configFile, fileData, categoryToSection, pending,
             totalTasks, sectionsWithTasks>>

vars == <<tasks, config, sectionNameToGID, ignoredSections, now, loc,
          pc, idx, moves, results, calls, orch, ext>>

inputs == <<tasks, config, sectionNameToGID, ignoredSections, now, loc>>

(***************************************************************************)
(* Bounds of the model                                                     *)
(***************************************************************************)
MaxTasks == 2       \* longest task list
MaxDay == 12        \* last calendar day a due date or a transition falls on
MaxNowDay == 3      \* last UTC day the reference instant falls on

(***************************************************************************)
(* Program constants                                                       *)
(***************************************************************************)
Overdue == 0
DueToday == 1
DueThisWeek == 2
DueLater == 3
NoDate == 4

HoursPerDay == 24   \* the divisor of Hours() / 24
WeekDays == 7       \* days <= 7

TaskCategory == {Overdue, DueToday, DueThisWeek, DueLater, NoDate}

(***************************************************************************)
(* time.Time and asana.Date                                                *)
(***************************************************************************)
UTC == [base |-> 0, transDay |-> 0, dst |-> 0]

\* Date(time.Time{}): the zero value, which is how an absent due_on is stored
ZeroDate == [isZero |-> TRUE, t |-> 0]

\* Date(t) for a parsed due_on; the value is in UTC
DateOf(t) == [isZero |-> FALSE, t |-> t]

IsZero(d) == d.isZero

\* int(x / y) of a float64 quotient: truncation toward zero
TruncDiv(x, y) == IF x >= 0 THEN x \div y ELSE -((-x) \div y)

\* UTC offset of location l in force at local midnight of calendar day d
OffsetAtMidnight(l, d) == l.base + (IF d > l.transDay THEN l.dst ELSE 0)

\* time.Date(y, m, d, 0, 0, 0, 0, l): the instant of local midnight of day d
TimeDate(d, l) == HoursPerDay * d - OffsetAtMidnight(l, d)

\* (t.Year(), t.Month(), t.Day()) of the time.Time (t, l): the local calendar day
\* it is the day whose local midnight is the last one at or before t, which is
\* at most one day away from the day the base offset alone gives
LocalDay(t, l) ==
    LET d0 == (t + l.base) \div HoursPerDay
    IN  CHOOSE d \in (d0 - 1)..(d0 + 1) : TimeDate(d, l) <= t /\ t < TimeDate(d + 1, l)

\* calendar day of a Date value (a time.Time in UTC)
DateDay(d) == LocalDay(d.t, UTC)

(***************************************************************************)
(* asana.Task.GetTaskCategory                                              *)
(***************************************************************************)
\* A variant that normalizes the reference instant in UTC, not in now.Location()
GetTaskCategory_NowInUTC(task, n, l) ==
    IF IsZero(task.DueOn) THEN NoDate
    ELSE LET nowDate == TimeDate(LocalDay(n, UTC), l)
             dueDateNormalized == TimeDate(DateDay(task.DueOn), l)
             days == TruncDiv(dueDateNormalized - nowDate, HoursPerDay)
         IN  IF dueDateNormalized = nowDate THEN DueToday
             ELSE IF dueDateNormalized < nowDate THEN Overdue
             ELSE IF days <= WeekDays THEN DueThisWeek
             ELSE DueLater

\* A variant whose Before test compares the raw due value with the raw instant
GetTaskCategory_RawBefore(task, n, l) ==
    IF IsZero(task.DueOn) THEN NoDate
    ELSE LET nowDate == TimeDate(LocalDay(n, l), l)
             dueDateNormalized == TimeDate(DateDay(task.DueOn), l)
             days == TruncDiv(dueDateNormalized - nowDate, HoursPerDay)
         IN  IF dueDateNormalized = nowDate THEN DueToday
             ELSE IF task.DueOn.t < n THEN Overdue
             ELSE IF days <= WeekDays THEN DueThisWeek
             ELSE DueLater

\* A variant without the test for a zero due date
GetTaskCategory_NoZeroCheck(task, n, l) ==
    LET nowDate == TimeDate(LocalDay(n, l), l)
        dueDateNormalized == TimeDate(DateDay(task.DueOn), l)
        days == TruncDiv(dueDateNormalized - nowDate, HoursPerDay)
    IN  IF dueDateNormalized = nowDate THEN DueToday
        ELSE IF dueDateNormalized < nowDate THEN Overdue
        ELSE IF days <= WeekDays THEN DueThisWeek
        ELSE DueLater

\* A variant whose week is the seventh day only
GetTaskCategory_EqualWeek(task, n, l) ==
    IF IsZero(task.DueOn) THEN NoDate
    ELSE LET nowDate == TimeDate(LocalDay(n, l), l)
             dueDateNormalized == TimeDate(DateDay(task.DueOn), l)
             days == TruncDiv(dueDateNormalized - nowDate, HoursPerDay)
         IN  IF dueDateNormalized = nowDate THEN DueToday
             ELSE IF dueDateNormalized < nowDate THEN Overdue
             ELSE IF days = WeekDays THEN DueThisWeek
             ELSE DueLater

\* task.GetTaskCategory(now), with now the time.Time (n, l)
GetTaskCategory(task, n, l) ==
    IF IsZero(task.DueOn) THEN NoDate
    ELSE LET nowDate == TimeDate(LocalDay(n, l), l)
             dueDateNormalized == TimeDate(DateDay(task.DueOn), l)
             days == TruncDiv(dueDateNormalized - nowDate, HoursPerDay)
         IN  IF dueDateNormalized = nowDate THEN DueToday
             ELSE IF dueDateNormalized < nowDate THEN Overdue
             ELSE IF days <= WeekDays THEN DueThisWeek
             ELSE DueLater

(***************************************************************************)
(* core.SectionConfig and the planner core.CalculateTaskMoves              *)
(***************************************************************************)
DefaultSectionConfig ==
    [Overdue         |-> "Overdue",
     DueToday        |-> "Due today",
     DueThisWeek     |-> "Due within the next 7 days",
     DueLater        |-> "Due later",
     NoDate          |-> "Recently assigned",
     IgnoredSections |-> << >>]

GetCategoryToSectionMap(cfg) ==
    [c \in TaskCategory |->
        CASE c = Overdue     -> cfg.Overdue
          [] c = DueToday    -> cfg.DueToday
          [] c = DueThisWeek -> cfg.DueThisWeek
          [] c = DueLater    -> cfg.DueLater
          [] c = NoDate      -> cfg.NoDate]

TaskMove(task, gid, name) == [Task |-> task, SectionGID |-> gid, SectionName |-> name]

\* Variant of the loop body without the check of the task's current section
PlanTask_NoSourceCheck(task, cfg, nameToGID, ignored, n, l) ==
    LET currentSectionName == task.AssigneeSection.Name
        targetSectionName == GetCategoryToSectionMap(cfg)[GetTaskCategory(task, n, l)]
    IN  IF targetSectionName \in ignored THEN << >>
        ELSE IF currentSectionName = targetSectionName THEN << >>
        ELSE IF targetSectionName \notin DOMAIN nameToGID THEN << >>
        ELSE << TaskMove(task, nameToGID[targetSectionName], targetSectionName) >>

\* Variant of the loop body without the check of the target section
PlanTask_NoTargetCheck(task, cfg, nameToGID, ignored, n, l) ==
    LET currentSectionName == task.AssigneeSection.Name
        targetSectionName == GetCategoryToSectionMap(cfg)[GetTaskCategory(task, n, l)]
    IN  IF currentSectionName \in ignored THEN << >>
        ELSE IF currentSectionName = targetSectionName THEN << >>
        ELSE IF targetSectionName \notin DOMAIN nameToGID THEN << >>
        ELSE << TaskMove(task, nameToGID[targetSectionName], targetSectionName) >>

\* Variant of the loop body without the already-in-place check
PlanTask_NoSameCheck(task, cfg, nameToGID, ignored, n, l) ==
    LET currentSectionName == task.AssigneeSection.Name
        targetSectionName == GetCategoryToSectionMap(cfg)[GetTaskCategory(task, n, l)]
    IN  IF currentSectionName \in ignored THEN << >>
        ELSE IF targetSectionName \in ignored THEN << >>
        ELSE IF targetSectionName \notin DOMAIN nameToGID THEN << >>
        ELSE << TaskMove(task, nameToGID[targetSectionName], targetSectionName) >>

\* Variant of the loop body that names the move after the task's current section
PlanTask_CurrentName(task, cfg, nameToGID, ignored, n, l) ==
    LET currentSectionName == task.AssigneeSection.Name
        targetSectionName == GetCategoryToSectionMap(cfg)[GetTaskCategory(task, n, l)]
    IN  IF currentSectionName \in ignored THEN << >>
        ELSE IF targetSectionName \in ignored THEN << >>
        ELSE IF currentSectionName = targetSectionName THEN << >>
        ELSE IF targetSectionName \notin DOMAIN nameToGID THEN << >>
        ELSE << TaskMove(task, nameToGID[targetSectionName], currentSectionName) >>

\* One iteration of the range loop of CalculateTaskMoves: the moves it appends
PlanTask(task, cfg, nameToGID, ignored, n, l) ==
    LET currentSectionName == task.AssigneeSection.Name
        targetSectionName == GetCategoryToSectionMap(cfg)[GetTaskCategory(task, n, l)]
    IN  IF currentSectionName \in ignored THEN << >>
        ELSE IF targetSectionName \in ignored THEN << >>
        ELSE IF currentSectionName = targetSectionName THEN << >>
        ELSE IF targetSectionName \notin DOMAIN nameToGID THEN << >>
        ELSE << TaskMove(task, nameToGID[targetSectionName], targetSectionName) >>

(***************************************************************************)
(* Inputs                                                                  *)
(***************************************************************************)
\* a Go map without keys
EmptyMap == [c \in {} |-> << >>]

\* nothing returned yet
NoReturn == [nilMap |-> TRUE, map |-> EmptyMap, err |-> FALSE]

\* no request on the wire
NoRequest == [op |-> "none", args |-> << >>, executed |-> FALSE, ctxDone |-> FALSE]

\* no earlier run
NoPrev == [dryRun |-> FALSE, now |-> 0, moves |-> << >>, returnedMap |-> FALSE,
           allOk |-> FALSE, remoteSections |-> << >>, remoteTasks |-> << >>]

\* no file read (os.ReadFile not called)
NoFile == [ok |-> FALSE, doc |-> << >>]

\* main has not started, nothing has been loaded or displayed
NoExt ==
    /\ run = 1
    /\ prevRun = NoPrev
    /\ configFile = "default"
    /\ fileData = NoFile
    /\ categoryToSection = EmptyMap
    /\ pending = {}
    /\ printed = << >>
    /\ totalTasks = 0
    /\ sectionsWithTasks = 0

\* the orchestrator's state when no run of OrganizeTasks is under way
NoRun ==
    /\ dryRun = TRUE
    /\ cancelled = FALSE
    /\ remoteSections = << >>
    /\ remoteTasks = << >>
    /\ sections = << >>
    /\ categorizedTasks = EmptyMap
    /\ errors = 0
    /\ ret = NoReturn
    /\ inflight = NoRequest

\* reference instant of the planner runs: noon UTC of day 2
PlanNow == HoursPerDay * 2 + 12

\* due dates of the planner runs: none, yesterday, today, in 3 days, in 9 days
PlanDues == {ZeroDate} \cup {DateOf(HoursPerDay * d) : d \in {1, 2, 5, 11}}

PlanSections == {"Wrong Section", "Due later", "Waiting For"}

TaskGID(i) == CASE i = 1 -> "task_1" [] i = 2 -> "task_2" [] i = 3 -> "task_3" [] OTHER -> "task_n"

\* the task lists: position i holds the task of GID task_i
TaskLists ==
    UNION {
        { [i \in 1..len |-> [GID             |-> TaskGID(i),
                             DueOn           |-> f[i][1],
                             AssigneeSection |-> [Name |-> f[i][2]]]]
          : f \in [1..len -> PlanDues \X PlanSections] }
        : len \in 0..MaxTasks }

Configs ==
    { [DefaultSectionConfig EXCEPT !.DueLater = later, !.NoDate = nodate]
      : later \in {"Due later", "Waiting For"}, nodate \in {"Recently assigned", ""} }

AllSectionNames ==
    {"Overdue", "Due today", "Due within the next 7 days", "Due later",
     "Recently assigned", "Waiting For"}

GIDOf(name) ==
    CASE name = "Overdue" -> "section_Overdue"
      [] name = "Due today" -> "section_Due today"
      [] name = "Due within the next 7 days" -> "section_Due within the next 7 days"
      [] name = "Due later" -> "section_Due later"
      [] name = "Recently assigned" -> "section_Recently assigned"
      [] name = "Waiting For" -> "section_Waiting For"
      [] name = "Wrong Section" -> "section_Wrong Section"
      [] OTHER -> "section_new"

\* name -> GID maps: all sections exist, or "Due later" does not
SectionMaps ==
    { [name \in AllSectionNames \ missing |-> GIDOf(name)] : missing \in {{}, {"Due later"}} }

IgnoredSets == {{}, {"Waiting For"}, {"Due later"}}

Bases == {-5, 0, 9}

\* the locations: no transition, or one transition of one hour on some day
Locations ==
    { [base |-> b, transDay |-> 0, dst |-> 0] : b \in Bases }
    \cup { [base |-> b, transDay |-> d, dst |-> s] : b \in Bases, d \in 0..MaxDay, s \in {-1, 1} }

NowHours == {0, 3, 12, 23}
DueHours == {0, 23}

Instants == { HoursPerDay * d + h : d \in 1..MaxNowDay, h \in NowHours }

Dues == {ZeroDate} \cup { DateOf(HoursPerDay * d + h) : d \in 0..MaxDay, h \in DueHours }

(***************************************************************************)
(* Spec: calls of core.CalculateTaskMoves on one set of arguments          *)
(***************************************************************************)
Init ==
    /\ tasks \in TaskLists
    /\ config \in Configs
    /\ sectionNameToGID \in SectionMaps
    /\ ignoredSections \in IgnoredSets
    /\ now = PlanNow
    /\ loc = UTC
    /\ pc = "idle"
    /\ idx = 1
    /\ moves = << >>
    /\ results = << >>
    /\ calls = << >>
    /\ NoRun
    /\ NoExt

\* the caller enters CalculateTaskMoves: var moves []TaskMove
CalculateTaskMovesCall ==
    /\ pc \in {"idle", "returned"}
    /\ Len(results) < 2
    /\ pc' = "loop"
    /\ idx' = 1
    /\ moves' = << >>
    /\ UNCHANGED <<inputs, results, calls>>
    /\ UNCHANGED <<orch, ext>>

\* Variant of the iteration that also moves the task while planning
CalculateTaskMovesIter_Moving ==
    /\ pc = "loop"
    /\ idx <= Len(tasks)
    /\ LET new == PlanTask(tasks[idx], config, sectionNameToGID, ignoredSections, now, loc)
       IN  /\ moves' = moves \o new
           /\ calls' = calls \o [j \in 1..Len(new) |->
                                   <<"MoveTaskToSection", new[j].SectionGID, new[j].Task.GID>>]
    /\ idx' = idx + 1
    /\ UNCHANGED <<inputs, pc, results>>
    /\ UNCHANGED <<orch, ext>>

\* Variant of the iteration that records the planned section in the task list
CalculateTaskMovesIter_Relabel ==
    /\ pc = "loop"
    /\ idx <= Len(tasks)
    /\ LET new == PlanTask(tasks[idx], config, sectionNameToGID, ignoredSections, now, loc)
       IN  /\ moves' = moves \o new
           /\ tasks' = IF new = << >> THEN tasks
                       ELSE [tasks EXCEPT ![idx].AssigneeSection.Name = new[1].SectionName]
    /\ idx' = idx + 1
    /\ UNCHANGED <<config, sectionNameToGID, ignoredSections, now, loc, pc, results, calls>>
    /\ UNCHANGED <<orch, ext>>

\* Variant of the iteration that leaves the loop at a target section without GID
CalculateTaskMovesIter_Break ==
    /\ pc = "loop"
    /\ idx <= Len(tasks)
    /\ moves' = moves \o PlanTask(tasks[idx], config, sectionNameToGID, ignoredSections, now, loc)
    /\ idx' = IF GetCategoryToSectionMap(config)[GetTaskCategory(tasks[idx], now, loc)]
                    \notin DOMAIN sectionNameToGID
              THEN Len(tasks) + 1
              ELSE idx + 1
    /\ UNCHANGED <<inputs, pc, results, calls>>
    /\ UNCHANGED <<orch, ext>>

\* one iteration of `for _, task := range tasks`
CalculateTaskMovesIter ==
    /\ pc = "loop"
    /\ idx <= Len(tasks)
    /\ moves' = moves \o PlanTask(tasks[idx], config, sectionNameToGID, ignoredSections, now, loc)
    /\ idx' = idx + 1
    /\ UNCHANGED <<inputs, pc, results, calls>>
    /\ UNCHANGED <<orch, ext>>

\* return moves
CalculateTaskMovesReturn ==
    /\ pc = "loop"
    /\ idx > Len(tasks)
    /\ results' = Append(results, moves)
    /\ pc' = "returned"
    /\ UNCHANGED <<inputs, idx, moves, calls>>
    /\ UNCHANGED <<orch, ext>>

Next ==
    \/ CalculateTaskMovesCall
    \/ CalculateTaskMovesIter
    \/ CalculateTaskMovesReturn

Spec == Init /\ [][Next]_vars

(***************************************************************************)
(* SpecCategory: one call of Task.GetTaskCategory                          *)
(***************************************************************************)
InitCategory ==
    /\ tasks \in { << [GID |-> TaskGID(1), DueOn |-> d,
                       AssigneeSection |-> [Name |-> sec]] >>
                    : d \in Dues, sec \in {"Wrong Section", "Recently assigned"} }
    /\ config = DefaultSectionConfig
    /\ sectionNameToGID = [name \in AllSectionNames |-> GIDOf(name)]
    /\ ignoredSections = {}
    /\ now \in Instants
    /\ loc \in Locations
    /\ pc = "idle"
    /\ idx = 1
    /\ moves = << >>
    /\ results = << >>
    /\ calls = << >>
    /\ NoRun
    /\ NoExt

\* category := task.GetTaskCategory(now)
CallGetTaskCategory ==
    /\ pc = "idle"
    /\ results' = << GetTaskCategory(tasks[1], now, loc) >>
    /\ pc' = "returned"
    /\ UNCHANGED <<inputs, idx, moves, calls>>
    /\ UNCHANGED <<orch, ext>>

NextCategory == CallGetTaskCategory

SpecCategory == InitCategory /\ [][NextCategory]_vars

(***************************************************************************)
(* Vocabulary of the properties                                            *)
(***************************************************************************)
CurrentName(task) == task.AssigneeSection.Name

\* the configured section name of the category of the task
ConfiguredName(task) == GetCategoryToSectionMap(config)[GetTaskCategory(task, now, loc)]

HasMove(r, task) == \E j \in 1..Len(r) : r[j].Task = task

Returned == pc = "returned" /\ Len(results) >= 1

\* the four conditions under which a task is to be moved
AllFour(task) ==
    /\ CurrentName(task) \notin ignoredSections
    /\ ConfiguredName(task) \notin ignoredSections
    /\ CurrentName(task) # ConfiguredName(task)
    /\ ConfiguredName(task) \in DOMAIN sectionNameToGID

\* the tasks of the move list r are a subsequence of the list ts
IsTaskSubsequence(r, ts) ==
    \E f \in [1..Len(r) -> 1..Len(ts)] :
        /\ \A j \in 1..Len(r) : r[j].Task = ts[f[j]]
        /\ \A j1, j2 \in 1..Len(r) : j1 < j2 => f[j1] < f[j2]

(***************************************************************************)
(* Properties of CalculateTaskMoves (specification Spec)                   *)
(***************************************************************************)

\* C1: every returned move list holds a move for a task if and only if the
\* task's current section is not ignored, the configured section of its
\* category is not ignored, the two names differ, and the configured name has
\* an identifier in the map; each move carries the configured name of its
\* task's category and the map's identifier for that name.
C1_MoveIffAllFour ==
    \A k \in 1..Len(results) :
        /\ \A i \in 1..Len(tasks) : HasMove(results[k], tasks[i]) <=> AllFour(tasks[i])
        /\ \A j \in 1..Len(results[k]) :
              LET m == results[k][j]
              IN  /\ \E i \in 1..Len(tasks) : m.Task = tasks[i]
                  /\ m.SectionName = ConfiguredName(m.Task)
                  /\ m.SectionName \in DOMAIN sectionNameToGID
                  /\ m.SectionGID = sectionNameToGID[m.SectionName]

\* a task in the wrong section got the move to its configured section
C1_Witness ==
    /\ Returned
    /\ \E j \in 1..Len(results[1]) :
          /\ results[1][j].SectionName = "Overdue"
          /\ results[1][j].SectionGID = "section_Overdue"
          /\ CurrentName(results[1][j].Task) = "Wrong Section"
    /\ \E i \in 1..Len(tasks) : ~AllFour(tasks[i]) /\ ~HasMove(results[1], tasks[i])

\* C2: no move, returned or being collected, is for a task whose current
\* section name is in the ignored set, whatever its due date.
C2_IgnoredSourceStays ==
    /\ \A j \in 1..Len(moves) : CurrentName(moves[j].Task) \notin ignoredSections
    /\ \A k \in 1..Len(results) : \A i \in 1..Len(tasks) :
          CurrentName(tasks[i]) \in ignoredSections => ~HasMove(results[k], tasks[i])

\* a task sits in an ignored section, its category's section is another one
\* that exists and is not ignored, and the planner returned without moving it
C2_Witness ==
    /\ Returned
    /\ \E i \in 1..Len(tasks) :
          /\ CurrentName(tasks[i]) \in ignoredSections
          /\ ConfiguredName(tasks[i]) \notin ignoredSections
          /\ ConfiguredName(tasks[i]) # CurrentName(tasks[i])
          /\ ConfiguredName(tasks[i]) \in DOMAIN sectionNameToGID
          /\ ~IsZero(tasks[i].DueOn)
          /\ ~HasMove(results[1], tasks[i])

\* C3: no move, returned or being collected, has a SectionName in the ignored
\* set, even when that section is the configured one and has an identifier.
C3_IgnoredTargetNeverPlanned ==
    /\ \A j \in 1..Len(moves) : moves[j].SectionName \notin ignoredSections
    /\ \A k \in 1..Len(results) : \A j \in 1..Len(results[k]) :
          results[k][j].SectionName \notin ignoredSections

\* a task outside the ignored sections whose configured section is ignored and
\* has an identifier, and the planner returned without moving it
C3_Witness ==
    /\ Returned
    /\ \E i \in 1..Len(tasks) :
          /\ CurrentName(tasks[i]) \notin ignoredSections
          /\ ConfiguredName(tasks[i]) \in ignoredSections
          /\ ConfiguredName(tasks[i]) \in DOMAIN sectionNameToGID
          /\ ConfiguredName(tasks[i]) # CurrentName(tasks[i])
          /\ ~HasMove(results[1], tasks[i])

\* C4: a task whose current section name equals the configured name of its
\* category gets no move, and every move names a section other than the
\* current section of its task.
C4_InPlaceNoMove ==
    \A k \in 1..Len(results) :
        /\ \A i \in 1..Len(tasks) :
              CurrentName(tasks[i]) = ConfiguredName(tasks[i]) => ~HasMove(results[k], tasks[i])
        /\ \A j \in 1..Len(results[k]) :
              results[k][j].SectionName # CurrentName(results[k][j].Task)

\* a task already in the existing, not ignored section of its category was
\* left alone while another task of the list was moved
C4_Witness ==
    /\ Returned
    /\ Len(results[1]) >= 1
    /\ \E i \in 1..Len(tasks) :
          /\ CurrentName(tasks[i]) = ConfiguredName(tasks[i])
          /\ CurrentName(tasks[i]) \notin ignoredSections
          /\ CurrentName(tasks[i]) \in DOMAIN sectionNameToGID
          /\ ~HasMove(results[1], tasks[i])

\* C5: a task whose configured section name has no identifier in the map
\* gets no move, the call still returns a list, and every other task of the
\* list is planned as if the first were not there.
C5_MissingTargetSkipped ==
    /\ pc = "loop" /\ idx > Len(tasks) => ENABLED CalculateTaskMovesReturn
    /\ \A k \in 1..Len(results) : \A i \in 1..Len(tasks) :
          IF ConfiguredName(tasks[i]) \notin DOMAIN sectionNameToGID
          THEN ~HasMove(results[k], tasks[i])
          ELSE HasMove(results[k], tasks[i]) <=>
                  /\ CurrentName(tasks[i]) \notin ignoredSections
                  /\ ConfiguredName(tasks[i]) \notin ignoredSections
                  /\ CurrentName(tasks[i]) # ConfiguredName(tasks[i])

\* the first task's configured section has no identifier (nothing else would
\* stop its move), and the task after it was moved
C5_Witness ==
    /\ Returned
    /\ Len(tasks) >= 2
    /\ ConfiguredName(tasks[1]) \notin DOMAIN sectionNameToGID
    /\ CurrentName(tasks[1]) \notin ignoredSections
    /\ ConfiguredName(tasks[1]) \notin ignoredSections
    /\ CurrentName(tasks[1]) # ConfiguredName(tasks[1])
    /\ ~HasMove(results[1], tasks[1])
    /\ HasMove(results[1], tasks[2])

\* C6: the second call on the same arguments returns the list the first call
\* returned, and the tasks of every returned list are a subsequence of the
\* task list.
C6_DeterministicInOrder ==
    /\ Len(results) = 2 => results[1] = results[2]
    /\ \A k \in 1..Len(results) : IsTaskSubsequence(results[k], tasks)

\* two calls have returned, each time with moves for the first and the second task
C6_Witness ==
    /\ pc = "returned"
    /\ Len(results) = 2
    /\ Len(results[2]) = 2
    /\ results[2][1].Task = tasks[1]
    /\ results[2][2].Task = tasks[2]

\* C7: no step of CalculateTaskMoves changes the task list, the configuration,
\* the name-to-identifier map, the ignored set or the reference time, and none
\* issues a client call.
C7_NoSideEffects == [][inputs' = inputs /\ calls' = calls]_vars

\* the planner has returned a move and no client call was issued
C7_Witness ==
    /\ Returned
    /\ Len(results[1]) >= 1
    /\ calls = << >>

(***************************************************************************)
(* Properties of GetTaskCategory (specification SpecCategory)              *)
(***************************************************************************)
CategoryReturned == pc = "returned" /\ Len(results) = 1

\* calendar days from the reference instant's local date to the due date
DaysAhead == DateDay(tasks[1].DueOn) - LocalDay(now, loc)

\* C8: a due date k calendar days after the reference instant's local date is
\* DueThisWeek when 1 <= k <= 7 and DueLater when k >= 8, whatever the length
\* in hours of the local days in between.
C8_WeekBoundary ==
    CategoryReturned /\ ~IsZero(tasks[1].DueOn) =>
        /\ (1 <= DaysAhead /\ DaysAhead <= 7) => results[1] = DueThisWeek
        /\ DaysAhead >= 8 => results[1] = DueLater

\* C9: a due date on the reference instant's local calendar day is DueToday,
\* at any time of day of either value.
C9_SameDayIsDueToday ==
    CategoryReturned /\ ~IsZero(tasks[1].DueOn) /\ DaysAhead = 0 =>
        results[1] = DueToday

\* the due value is late on the local day of a reference instant whose UTC
\* day is another one
C9_Witness ==
    /\ CategoryReturned
    /\ ~IsZero(tasks[1].DueOn)
    /\ DaysAhead = 0
    /\ tasks[1].DueOn.t > now
    /\ LocalDay(now, UTC) # LocalDay(now, loc)
    /\ results[1] = DueToday

\* C10: a present due date is Overdue exactly when its calendar day is before
\* the reference instant's local calendar day, and an absent one never is.
C10_OverdueIffBefore ==
    CategoryReturned =>
        IF IsZero(tasks[1].DueOn) THEN results[1] # Overdue
        ELSE (results[1] = Overdue <=> DaysAhead < 0)

\* the due day is the day before the local day, though the due value is later
\* than the reference instant's UTC midnight
C10_Witness ==
    /\ CategoryReturned
    /\ ~IsZero(tasks[1].DueOn)
    /\ DaysAhead = -1
    /\ tasks[1].DueOn.t >= HoursPerDay * LocalDay(now, UTC)
    /\ results[1] = Overdue

\* C11: a task without due date is NoDate at every reference instant and in
\* every section, no task with a due date is NoDate, and the planner's target
\* for a task without due date is the configured no-date section.
C11_NoDueDateIsNoDate ==
    CategoryReturned =>
        /\ results[1] = NoDate <=> IsZero(tasks[1].DueOn)
        /\ IsZero(tasks[1].DueOn) =>
              /\ ConfiguredName(tasks[1]) = config.NoDate
              /\ PlanTask(tasks[1], config, sectionNameToGID, ignoredSections, now, loc)
                    = IF CurrentName(tasks[1]) = config.NoDate THEN << >>
                      ELSE << TaskMove(tasks[1], sectionNameToGID[config.NoDate], config.NoDate) >>

\* a task without due date outside the no-date section was categorized, late
\* on a day of a location that is not UTC
C11_Witness ==
    /\ CategoryReturned
    /\ IsZero(tasks[1].DueOn)
    /\ CurrentName(tasks[1]) = "Wrong Section"
    /\ loc.base # 0
    /\ loc.dst # 0
    /\ results[1] = NoDate

(***************************************************************************)
(* core: the helpers of OrganizeTasks                                      *)
(***************************************************************************)
RECURSIVE CategorizeUpTo(_, _, _, _)
\* the map `categorized` after the first k iterations of the loop of CategorizeTasks
CategorizeUpTo(ts, k, n, l) ==
    IF k = 0 THEN EmptyMap
    ELSE LET prev == CategorizeUpTo(ts, k - 1, n, l)
             category == GetTaskCategory(ts[k], n, l)
             old == IF category \in DOMAIN prev THEN prev[category] ELSE << >>
         IN  [c \in DOMAIN prev \cup {category} |->
                 IF c = category THEN Append(old, ts[k]) ELSE prev[c]]

\* A variant that stores the task in place of the category's list
CategorizeTasks_Overwrite(ts, n, l) ==
    [c \in {GetTaskCategory(ts[i], n, l) : i \in 1..Len(ts)} |->
        LET last == CHOOSE i \in 1..Len(ts) :
                        /\ GetTaskCategory(ts[i], n, l) = c
                        /\ \A j \in (i + 1)..Len(ts) : GetTaskCategory(ts[j], n, l) # c
        IN  << ts[last] >>]

\* CategorizeTasks(tasks, now)
CategorizeTasks(ts, n, l) == CategorizeUpTo(ts, Len(ts), n, l)

RECURSIVE MovesUpTo(_, _, _, _, _, _, _)
\* the slice `moves` after the first k iterations of the loop of CalculateTaskMoves
MovesUpTo(ts, k, cfg, nameToGID, ignored, n, l) ==
    IF k = 0 THEN << >>
    ELSE MovesUpTo(ts, k - 1, cfg, nameToGID, ignored, n, l)
            \o PlanTask(ts[k], cfg, nameToGID, ignored, n, l)

\* CalculateTaskMoves(tasks, config, sectionNameToGID, ignoredSections, now)
CalculateTaskMoves(ts, cfg, nameToGID, ignored, n, l) ==
    MovesUpTo(ts, Len(ts), cfg, nameToGID, ignored, n, l)

\* CreateIgnoredSectionsMap(ignoredSections): the names mapped to true
CreateIgnoredSectionsMap(names) == { names[i] : i \in 1..Len(names) }

\* A variant that keeps the first identifier seen for a name
SectionMapUpTo_FirstWins(secs, k) ==
    [name \in { secs[i].Name : i \in 1..k } |->
        secs[CHOOSE i \in 1..k :
                /\ secs[i].Name = name
                /\ \A j \in 1..(i - 1) : secs[j].Name # name].GID]

RECURSIVE SectionMapUpTo(_, _)
\* the map `result` after the first k iterations of the loop of CreateSectionNameToGIDMap
SectionMapUpTo(secs, k) ==
    IF k = 0 THEN EmptyMap
    ELSE LET prev == SectionMapUpTo(secs, k - 1)
         IN  [name \in DOMAIN prev \cup {secs[k].Name} |->
                 IF name = secs[k].Name THEN secs[k].GID ELSE prev[name]]

\* CreateSectionNameToGIDMap(sections)
CreateSectionNameToGIDMap(secs) == SectionMapUpTo(secs, Len(secs))

\* requiredSections of EnsureRequiredSections
RequiredSections(cfg) ==
    << cfg.Overdue, cfg.DueToday, cfg.DueThisWeek, cfg.DueLater, cfg.NoDate >>

(***************************************************************************)
(* The client and the service                                              *)
(***************************************************************************)
Section(gid, name) == [GID |-> gid, Name |-> name]

\* A variant of the client that sends its requests without the caller's context
ContextStops_NoContext(ctxDone) == FALSE

\* whether the context stops a request: a request bound to a context that is
\* done is not sent, and a call that waits for its response when the context is
\* done returns the context's error
ContextStops(ctxDone) == ctxDone

\* how a client call that reads and has waited for its response can return
\* (TRUE: without error): with an error when the context is done by then, with
\* or without one otherwise
CallOutcomes(ctxDone) == IF ContextStops(ctxDone) THEN {FALSE} ELSE {TRUE, FALSE}

\* the record in the log of a client call that returned at once: ctxDone says
\* whether the context was done when the call was made, executed whether the
\* service carried out the write the request asks for
Call(op, args, ok, result) ==
    [op |-> op, args |-> args, ok |-> ok, result |-> result, ctxDone |-> cancelled,
     executed |-> FALSE]

\* a write request put on the wire by `c.Client.Do(httpReq)`
Request(op, args) == [op |-> op, args |-> args, executed |-> FALSE, ctxDone |-> cancelled]

\* the record in the log of the write call that waited on the request req
Answered(req, ok, result) ==
    [op |-> req.op, args |-> req.args, ok |-> ok, result |-> result,
     ctxDone |-> req.ctxDone, executed |-> req.executed]

\* whether the call that waits on req can return without error: the service
\* answered 2xx, the response was read and decoded, the context is not done
CanSucceed(req) == req.executed /\ ~ContextStops(cancelled)

\* the service's section for a POST /projects/{gid}/sections with this name
CreatedSection(name) == Section(GIDOf(name), name)

\* the service's tasks after POST /sections/{sectionGID}/addTask of taskGID
TasksAfterMove(rtasks, rsections, sectionGID, taskGID) ==
    LET target == CHOOSE i \in 1..Len(rsections) : rsections[i].GID = sectionGID
    IN  [i \in 1..Len(rtasks) |->
            IF rtasks[i].GID = taskGID
            THEN [rtasks[i] EXCEPT !.AssigneeSection.Name = rsections[target].Name]
            ELSE rtasks[i]]

\* one line of standard output of OrganizeTasks and its helpers
Out(kind, task, section, count) ==
    [kind |-> kind, task |-> task, section |-> section, count |-> count]

\* the lines of `for _, task := range allTasks { if ignoredSections[sectionName] {...} }`
SkipLines(ts, ignored) ==
    LET skipped == SelectSeq(ts, LAMBDA t : t.AssigneeSection.Name \in ignored)
    IN  [i \in 1..Len(skipped) |->
            Out("skip", skipped[i].GID, skipped[i].AssigneeSection.Name, 0)]

(***************************************************************************)
(* Inputs of the runs of OrganizeTasks                                     *)
(***************************************************************************)
MaxOrgTasks == 2    \* longest task list of the service
MaxRuns == 2        \* how many times the program is started

OrgTask(gid, due, sec) == [GID |-> gid, DueOn |-> due, AssigneeSection |-> [Name |-> sec]]

\* the tasks of the service: overdue in "Waiting For", due in 9 days in
\* "Due later", without due date and due today in a section of no category
OrgTaskPool ==
    { OrgTask("task_A", DateOf(HoursPerDay * 1), "Waiting For"),
      OrgTask("task_B", DateOf(HoursPerDay * 11), "Due later"),
      OrgTask("task_C", ZeroDate, "Wrong Section"),
      OrgTask("task_D", DateOf(HoursPerDay * 2), "Wrong Section") }

\* the task lists of the service: no task twice
OrgTaskLists ==
    UNION { { f \in [1..len -> OrgTaskPool] : \A i, j \in 1..len : i # j => f[i] # f[j] }
            : len \in 0..MaxOrgTasks }

OrgBaseSections ==
    << Section(GIDOf("Wrong Section"), "Wrong Section"),
       Section(GIDOf("Waiting For"), "Waiting For") >>

\* the section lists of the service: none of the configured sections, one of
\* them, one of them twice, all of them
OrgSectionLists ==
    { OrgBaseSections,
      OrgBaseSections \o << Section(GIDOf("Due later"), "Due later") >>,
      OrgBaseSections \o << Section(GIDOf("Due later"), "Due later"),
                            Section("section_Due later_2", "Due later") >>,
      OrgBaseSections \o [i \in 1..5 |->
          Section(GIDOf(RequiredSections(DefaultSectionConfig)[i]),
                  RequiredSections(DefaultSectionConfig)[i])] }

\* the configurations: the default one, with an ignored section, with an ignored
\* section as a target, with one section for two categories
OrgConfigs ==
    { DefaultSectionConfig,
      [DefaultSectionConfig EXCEPT !.IgnoredSections = << "Waiting For" >>],
      [DefaultSectionConfig EXCEPT !.DueToday = "Waiting For", !.IgnoredSections = << "Waiting For" >>],
      [DefaultSectionConfig EXCEPT !.NoDate = "Due later"] }

\* the readings of the clock at line `now := time.Now()`
OrgNows == {PlanNow, PlanNow + 1, PlanNow + HoursPerDay}

SectionNamesOf(secs) == { secs[i].Name : i \in 1..Len(secs) }

(***************************************************************************)
(* SpecOrganize: one run of core.OrganizeTasks against the service         *)
(***************************************************************************)
InitOrganize ==
    /\ tasks = << >>
    /\ config \in OrgConfigs
    /\ sectionNameToGID = EmptyMap
    /\ ignoredSections = {}
    /\ now = PlanNow
    /\ loc = UTC
    /\ pc = "start"
    /\ idx = 1
    /\ moves = << >>
    /\ results = << >>
    /\ calls = << >>
    /\ dryRun \in BOOLEAN
    /\ cancelled = FALSE
    /\ remoteSections \in OrgSectionLists
    /\ remoteTasks \in OrgTaskLists
    /\ \A i \in 1..Len(remoteTasks) :
          remoteTasks[i].AssigneeSection.Name \in SectionNamesOf(remoteSections)
    /\ sections = << >>
    /\ categorizedTasks = EmptyMap
    /\ errors = 0
    /\ ret = NoReturn
    /\ inflight = NoRequest
    /\ NoExt

\* return nil, fmt.Errorf(...)
ReturnError ==
    /\ pc' = "done"
    /\ ret' = [nilMap |-> TRUE, map |-> EmptyMap, err |-> TRUE]

\* the context of the run is cancelled or its deadline passes
CancelContext ==
    /\ pc \notin {"idle", "loop", "returned", "done", "exited", "display", "displayed"}
    /\ ~cancelled
    /\ cancelled' = TRUE
    /\ UNCHANGED <<inputs, pc, idx, moves, results, calls, dryRun, remoteSections,
                   remoteTasks, sections, categorizedTasks, errors, ret, inflight>>
    /\ UNCHANGED ext

\* the service executes the write request on the wire, while the client waits
\* in `c.Client.Do(httpReq)` for the response
ServiceExecutes ==
    /\ inflight.op \in {"CreateSection", "MoveTaskToSection"}
    /\ ~inflight.executed
    /\ inflight' = [inflight EXCEPT !.executed = TRUE]
    /\ IF inflight.op = "CreateSection"
       THEN /\ remoteSections' = Append(remoteSections, CreatedSection(inflight.args[2]))
            /\ UNCHANGED remoteTasks
       ELSE /\ remoteTasks' = TasksAfterMove(remoteTasks, remoteSections,
                                             inflight.args[1], inflight.args[2])
            /\ UNCHANGED remoteSections
    /\ UNCHANGED <<inputs, pc, idx, moves, results, calls, dryRun, cancelled,
                   sections, categorizedTasks, errors, ret>>
    /\ UNCHANGED ext

\* user, err := client.GetCurrentUser(ctx), up to the point where the request is
\* sent; a request the context stops is not sent and the call fails at once
GetCurrentUser ==
    /\ pc = "start"
    /\ IF ContextStops(cancelled)
       THEN /\ calls' = Append(calls, Call("GetCurrentUser", << >>, FALSE, << >>))
            /\ ReturnError
            /\ UNCHANGED inflight
       ELSE /\ inflight' = Request("GetCurrentUser", << >>)
            /\ pc' = "userWait"
            /\ UNCHANGED <<calls, ret>>
    /\ UNCHANGED <<tasks, config, sectionNameToGID, ignoredSections, now, loc, idx,
                   moves, results, dryRun, cancelled, remoteSections, remoteTasks,
                   sections, categorizedTasks, errors>>
    /\ UNCHANGED ext

\* GetCurrentUser returns, the caller's test of the error and the line
\* "Logged in as:"; the call returns an error also when the context is done
\* while it waits in `c.Client.Do(httpReq)`
GetCurrentUserReturn ==
    /\ pc = "userWait"
    /\ \E ok \in CallOutcomes(cancelled) :
          /\ calls' = Append(calls, Answered(inflight, ok, << >>))
          /\ IF ok
             THEN /\ pc' = "workspaces"
                  /\ ret' = ret
                  /\ printed' = Append(printed, Out("user", "", "", 0))
             ELSE /\ ReturnError
                  /\ printed' = printed
    /\ inflight' = NoRequest
    /\ UNCHANGED <<tasks, config, sectionNameToGID, ignoredSections, now, loc, idx,
                   moves, results, dryRun, cancelled, remoteSections, remoteTasks,
                   sections, categorizedTasks, errors>>
    /\ UNCHANGED extRest

\* workspaces, err := client.GetWorkspaces(ctx), up to the point where the
\* request is sent
GetWorkspaces ==
    /\ pc = "workspaces"
    /\ IF ContextStops(cancelled)
       THEN /\ calls' = Append(calls, Call("GetWorkspaces", << >>, FALSE, << >>))
            /\ ReturnError
            /\ UNCHANGED inflight
       ELSE /\ inflight' = Request("GetWorkspaces", << >>)
            /\ pc' = "workspacesWait"
            /\ UNCHANGED <<calls, ret>>
    /\ UNCHANGED <<tasks, config, sectionNameToGID, ignoredSections, now, loc, idx,
                   moves, results, dryRun, cancelled, remoteSections, remoteTasks,
                   sections, categorizedTasks, errors>>
    /\ UNCHANGED ext

\* GetWorkspaces returns, the caller's tests of the error and of
\* len(workspaces), and the line "Using workspace:"
GetWorkspacesReturn ==
    /\ pc = "workspacesWait"
    /\ \E ok \in CallOutcomes(cancelled) : \E n \in IF ok THEN {0, 1} ELSE {0} :
          /\ calls' = Append(calls, Answered(inflight, ok, n))
          /\ IF ok /\ n > 0
             THEN /\ pc' = "taskList"
                  /\ ret' = ret
                  /\ printed' = Append(printed, Out("workspace", "", "", 0))
             ELSE /\ ReturnError
                  /\ printed' = printed
    /\ inflight' = NoRequest
    /\ UNCHANGED <<tasks, config, sectionNameToGID, ignoredSections, now, loc, idx,
                   moves, results, dryRun, cancelled, remoteSections, remoteTasks,
                   sections, categorizedTasks, errors>>
    /\ UNCHANGED extRest

\* userTaskList, err := client.GetUserTaskList(ctx, user.GID, workspace.GID), up
\* to the point where the request is sent
GetUserTaskList ==
    /\ pc = "taskList"
    /\ IF ContextStops(cancelled)
       THEN /\ calls' = Append(calls, Call("GetUserTaskList", << "user", "workspace" >>, FALSE, << >>))
            /\ ReturnError
            /\ UNCHANGED inflight
       ELSE /\ inflight' = Request("GetUserTaskList", << "user", "workspace" >>)
            /\ pc' = "taskListWait"
            /\ UNCHANGED <<calls, ret>>
    /\ UNCHANGED <<tasks, config, sectionNameToGID, ignoredSections, now, loc, idx,
                   moves, results, dryRun, cancelled, remoteSections, remoteTasks,
                   sections, categorizedTasks, errors>>
    /\ UNCHANGED ext

\* GetUserTaskList returns, and the caller's test of the error
GetUserTaskListReturn ==
    /\ pc = "taskListWait"
    /\ \E ok \in CallOutcomes(cancelled) :
          /\ calls' = Append(calls, Answered(inflight, ok, << >>))
          /\ IF ok THEN pc' = "getSections" /\ ret' = ret ELSE ReturnError
    /\ inflight' = NoRequest
    /\ UNCHANGED <<tasks, config, sectionNameToGID, ignoredSections, now, loc, idx,
                   moves, results, dryRun, cancelled, remoteSections, remoteTasks,
                   sections, categorizedTasks, errors>>
    /\ UNCHANGED ext

\* sections, err := client.GetSectionsForProject(ctx, userTaskList.GID), up to
\* the point where the request is sent
GetSectionsForProject ==
    /\ pc = "getSections"
    /\ IF ContextStops(cancelled)
       THEN /\ calls' = Append(calls, Call("GetSectionsForProject", << "list" >>, FALSE, << >>))
            /\ ReturnError
            /\ UNCHANGED inflight
       ELSE /\ inflight' = Request("GetSectionsForProject", << "list" >>)
            /\ pc' = "sectionsWait"
            /\ UNCHANGED <<calls, ret>>
    /\ UNCHANGED <<tasks, config, sectionNameToGID, ignoredSections, now, loc, idx,
                   moves, results, dryRun, cancelled, remoteSections, remoteTasks,
                   sections, categorizedTasks, errors>>
    /\ UNCHANGED ext

\* A variant that goes on without sections when the call fails
GetSectionsForProjectReturn_IgnoreError ==
    /\ pc = "sectionsWait"
    /\ \E ok \in CallOutcomes(cancelled) :
          /\ calls' = Append(calls, Answered(inflight, ok,
                                              IF ok THEN remoteSections ELSE << >>))
          /\ sections' = IF ok THEN remoteSections ELSE << >>
          /\ sectionNameToGID' = CreateSectionNameToGIDMap(sections')
          /\ pc' = IF dryRun THEN "fetchTasks" ELSE "ensure"
          /\ idx' = 1
          /\ ret' = ret
    /\ inflight' = NoRequest
    /\ UNCHANGED <<tasks, config, ignoredSections, now, loc, moves, results, dryRun,
                   cancelled, remoteSections, remoteTasks, categorizedTasks, errors>>
    /\ UNCHANGED ext

\* GetSectionsForProject returns, the caller's test of the error;
\* sectionNameToGID := CreateSectionNameToGIDMap(sections); if !dryRun { ... }
GetSectionsForProjectReturn ==
    /\ pc = "sectionsWait"
    /\ \E ok \in CallOutcomes(cancelled) :
          /\ calls' = Append(calls, Answered(inflight, ok,
                                              IF ok THEN remoteSections ELSE << >>))
          /\ IF ok
             THEN /\ sections' = remoteSections
                  /\ sectionNameToGID' = CreateSectionNameToGIDMap(remoteSections)
                  /\ pc' = IF dryRun THEN "fetchTasks" ELSE "ensure"
                  /\ idx' = 1
                  /\ ret' = ret
             ELSE /\ ReturnError
                  /\ UNCHANGED <<sections, sectionNameToGID, idx>>
    /\ inflight' = NoRequest
    /\ UNCHANGED <<tasks, config, ignoredSections, now, loc, moves, results, dryRun,
                   cancelled, remoteSections, remoteTasks, categorizedTasks, errors>>
    /\ UNCHANGED ext

\* where the run goes after iteration i of the loop of EnsureRequiredSections
AfterEnsure(i) == IF i >= Len(RequiredSections(config)) THEN "fetchTasks" ELSE "ensure"

\* A variant without the test `if _, exists := sectionNameToGID[sectionName]; !exists`
EnsureRequiredSectionsIter_NoExistsCheck ==
    /\ pc = "ensure"
    /\ LET sectionName == RequiredSections(config)[idx]
       IN  /\ printed' = Append(printed, Out("creating", "", sectionName, 0))
           /\ IF ContextStops(cancelled)
              THEN /\ calls' = Append(calls, Call("CreateSection", << "list", sectionName >>,
                                                  FALSE, << >>))
                   /\ ReturnError
                   /\ UNCHANGED <<inflight, idx>>
              ELSE /\ inflight' = Request("CreateSection", << "list", sectionName >>)
                   /\ pc' = "creating"
                   /\ UNCHANGED <<calls, idx, ret>>
    /\ UNCHANGED <<tasks, config, sectionNameToGID, ignoredSections, now, loc, moves,
                   results, dryRun, cancelled, remoteSections, remoteTasks, sections,
                   categorizedTasks, errors>>
    /\ UNCHANGED extRest

\* one iteration of `for _, sectionName := range requiredSections` of
\* EnsureRequiredSections, up to the point where CreateSection has sent its
\* request; a request the context stops is not sent and the call fails at once
EnsureRequiredSectionsIter ==
    /\ pc = "ensure"
    /\ LET sectionName == RequiredSections(config)[idx]
       IN  IF sectionName \in DOMAIN sectionNameToGID
           THEN /\ pc' = AfterEnsure(idx)
                /\ idx' = idx + 1
                /\ UNCHANGED <<calls, inflight, ret, printed>>
           ELSE /\ printed' = Append(printed, Out("creating", "", sectionName, 0))
                /\ IF ContextStops(cancelled)
                   THEN /\ calls' = Append(calls, Call("CreateSection", << "list", sectionName >>,
                                                       FALSE, << >>))
                        /\ ReturnError
                        /\ UNCHANGED <<inflight, idx>>
                   ELSE /\ inflight' = Request("CreateSection", << "list", sectionName >>)
                        /\ pc' = "creating"
                        /\ UNCHANGED <<calls, idx, ret>>
    /\ UNCHANGED <<tasks, config, sectionNameToGID, ignoredSections, now, loc, moves,
                   results, dryRun, cancelled, remoteSections, remoteTasks, sections,
                   categorizedTasks, errors>>
    /\ UNCHANGED extRest

\* A variant that does not record the created section in the map
CreateSectionReturn_NoMapUpdate ==
    /\ pc = "creating"
    /\ \E ok \in BOOLEAN :
          /\ ok => CanSucceed(inflight)
          /\ LET newSection == CreatedSection(inflight.args[2])
             IN  /\ calls' = Append(calls, Answered(inflight, ok,
                                                    IF ok THEN newSection ELSE << >>))
                 /\ IF ok
                    THEN /\ sections' = Append(sections, newSection)
                         /\ pc' = AfterEnsure(idx)
                         /\ idx' = idx + 1
                         /\ UNCHANGED <<sectionNameToGID, ret>>
                    ELSE /\ ReturnError
                         /\ UNCHANGED <<sections, sectionNameToGID, idx>>
    /\ inflight' = NoRequest
    /\ UNCHANGED <<tasks, config, ignoredSections, now, loc, moves, results, dryRun,
                   cancelled, remoteSections, remoteTasks, categorizedTasks, errors>>
    /\ UNCHANGED ext

\* CreateSection returns, and the rest of the iteration of the loop of
\* EnsureRequiredSections with the caller's test of the error: the call returns
\* the created section when the service executed the request and the response
\* was read and decoded; it returns an error when the service refused the
\* request, and also when the request was executed but the response did not
\* arrive before the context was done, could not be read or could not be decoded
CreateSectionReturn ==
    /\ pc = "creating"
    /\ \E ok \in BOOLEAN :
          /\ ok => CanSucceed(inflight)
          /\ LET newSection == CreatedSection(inflight.args[2])
             IN  /\ calls' = Append(calls, Answered(inflight, ok,
                                                    IF ok THEN newSection ELSE << >>))
                 /\ IF ok
                    THEN /\ sectionNameToGID' =
                               [name \in DOMAIN sectionNameToGID \cup {newSection.Name} |->
                                   IF name = newSection.Name THEN newSection.GID
                                   ELSE sectionNameToGID[name]]
                         /\ sections' = Append(sections, newSection)
                         /\ pc' = AfterEnsure(idx)
                         /\ idx' = idx + 1
                         /\ ret' = ret
                    ELSE /\ ReturnError
                         /\ UNCHANGED <<sections, sectionNameToGID, idx>>
    /\ inflight' = NoRequest
    /\ UNCHANGED <<tasks, config, ignoredSections, now, loc, moves, results, dryRun,
                   cancelled, remoteSections, remoteTasks, categorizedTasks, errors>>
    /\ UNCHANGED ext

\* ignoredSections := CreateIgnoredSectionsMap(config.IgnoredSections); the
\* header "Fetching all tasks"; allTasks, err := client.GetTasksFromUserTaskList(
\* ctx, userTaskList.GID), up to the point where the request is sent
GetTasksFromUserTaskList ==
    /\ pc = "fetchTasks"
    /\ ignoredSections' = CreateIgnoredSectionsMap(config.IgnoredSections)
    /\ IF ContextStops(cancelled)
       THEN /\ calls' = Append(calls, Call("GetTasksFromUserTaskList", << "list" >>, FALSE, << >>))
            /\ ReturnError
            /\ UNCHANGED inflight
       ELSE /\ inflight' = Request("GetTasksFromUserTaskList", << "list" >>)
            /\ pc' = "tasksWait"
            /\ UNCHANGED <<calls, ret>>
    /\ UNCHANGED <<tasks, config, sectionNameToGID, now, loc, idx, moves, results,
                   dryRun, cancelled, remoteSections, remoteTasks, sections,
                   categorizedTasks, errors>>
    /\ printed' = Append(printed, Out("fetching", "", "", 0))
    /\ UNCHANGED extRest

\* A variant that calls GetTasksFromUserTaskList again when it fails
GetTasksFromUserTaskListReturn_Retry ==
    /\ pc = "tasksWait"
    /\ \E ok \in CallOutcomes(cancelled) :
          /\ calls' = Append(calls, Answered(inflight, ok, << >>))
          /\ tasks' = IF ok THEN remoteTasks ELSE tasks
          /\ pc' = IF ok THEN "plan" ELSE "fetchTasks"
          /\ ret' = ret
          /\ printed' = printed \o (IF ok THEN SkipLines(remoteTasks, ignoredSections)
                                     ELSE << >>)
    /\ inflight' = NoRequest
    /\ UNCHANGED <<config, sectionNameToGID, ignoredSections, now, loc, idx, moves,
                   results, dryRun, cancelled, remoteSections, remoteTasks, sections,
                   categorizedTasks, errors>>
    /\ UNCHANGED extRest

\* GetTasksFromUserTaskList returns, the caller's test of the error, and the
\* lines for the tasks in ignored sections
GetTasksFromUserTaskListReturn ==
    /\ pc = "tasksWait"
    /\ \E ok \in CallOutcomes(cancelled) :
          /\ calls' = Append(calls, Answered(inflight, ok, << >>))
          /\ IF ok
             THEN /\ tasks' = remoteTasks
                  /\ pc' = "plan"
                  /\ ret' = ret
                  /\ printed' = printed \o SkipLines(remoteTasks, ignoredSections)
             ELSE /\ ReturnError
                  /\ tasks' = tasks
                  /\ printed' = printed
    /\ inflight' = NoRequest
    /\ UNCHANGED <<config, sectionNameToGID, ignoredSections, now, loc, idx, moves,
                   results, dryRun, cancelled, remoteSections, remoteTasks, sections,
                   categorizedTasks, errors>>
    /\ UNCHANGED extRest

\* A variant that executes the moves whatever dryRun says
PlanMoves_IgnoreDryRun ==
    /\ pc = "plan"
    /\ \E n \in OrgNows :
          /\ now' = n
          /\ categorizedTasks' = CategorizeTasks(tasks, n, loc)
          /\ moves' = CalculateTaskMoves(tasks, config, sectionNameToGID, ignoredSections, n, loc)
    /\ IF Len(moves') > 0
       THEN /\ pc' = "execute"
            /\ idx' = 1
            /\ errors' = 0
            /\ ret' = ret
            /\ printed' = Append(printed, Out("movingHeader", "", "", 0))
       ELSE /\ pc' = "done"
            /\ ret' = [nilMap |-> FALSE, map |-> categorizedTasks', err |-> FALSE]
            /\ UNCHANGED <<idx, errors, printed>>
    /\ UNCHANGED <<tasks, config, sectionNameToGID, ignoredSections, loc, results, calls,
                   dryRun, cancelled, remoteSections, remoteTasks, sections, inflight>>
    /\ UNCHANGED extRest

\* A variant that reads the clock once for the display and again, an hour
\* before the next midnight or later, for the plan
PlanMoves_TwoClocks ==
    /\ pc = "plan"
    /\ \E n \in OrgNows :
          /\ now' = n
          /\ categorizedTasks' = CategorizeTasks(tasks, n, loc)
          /\ moves' = CalculateTaskMoves(tasks, config, sectionNameToGID, ignoredSections,
                                         n + HoursPerDay, loc)
    /\ IF ~dryRun /\ Len(moves') > 0
       THEN /\ pc' = "execute"
            /\ idx' = 1
            /\ errors' = 0
            /\ ret' = ret
            /\ printed' = Append(printed, Out("movingHeader", "", "", 0))
       ELSE /\ pc' = "done"
            /\ ret' = [nilMap |-> FALSE, map |-> categorizedTasks', err |-> FALSE]
            /\ UNCHANGED <<idx, errors, printed>>
    /\ UNCHANGED <<tasks, config, sectionNameToGID, ignoredSections, loc, results, calls,
                   dryRun, cancelled, remoteSections, remoteTasks, sections, inflight>>
    /\ UNCHANGED extRest

\* A variant that plans no move in a dry run
PlanMoves_DryPlansNothing ==
    /\ pc = "plan"
    /\ \E n \in OrgNows :
          /\ now' = n
          /\ categorizedTasks' = CategorizeTasks(tasks, n, loc)
          /\ moves' = IF dryRun THEN << >>
                      ELSE CalculateTaskMoves(tasks, config, sectionNameToGID, ignoredSections, n, loc)
    /\ IF ~dryRun /\ Len(moves') > 0
       THEN /\ pc' = "execute"
            /\ idx' = 1
            /\ errors' = 0
            /\ ret' = ret
            /\ printed' = Append(printed, Out("movingHeader", "", "", 0))
       ELSE /\ pc' = "done"
            /\ ret' = [nilMap |-> FALSE, map |-> categorizedTasks', err |-> FALSE]
            /\ UNCHANGED <<idx, errors, printed>>
    /\ UNCHANGED <<tasks, config, sectionNameToGID, ignoredSections, loc, results, calls,
                   dryRun, cancelled, remoteSections, remoteTasks, sections, inflight>>
    /\ UNCHANGED extRest

\* now := time.Now(); categorizedTasks := CategorizeTasks(allTasks, now);
\* taskMoves := CalculateTaskMoves(...); if !dryRun && len(taskMoves) > 0 { ... }
\* up to the loop of ExecuteTaskMoves; else return categorizedTasks, nil
PlanMoves ==
    /\ pc = "plan"
    /\ \E n \in OrgNows :
          /\ now' = n
          /\ categorizedTasks' = CategorizeTasks(tasks, n, loc)
          /\ moves' = CalculateTaskMoves(tasks, config, sectionNameToGID, ignoredSections, n, loc)
    /\ IF ~dryRun /\ Len(moves') > 0
       THEN /\ pc' = "execute"
            /\ idx' = 1
            /\ errors' = 0
            /\ ret' = ret
            /\ printed' = Append(printed, Out("movingHeader", "", "", 0))
       ELSE /\ pc' = "done"
            /\ ret' = [nilMap |-> FALSE, map |-> categorizedTasks', err |-> FALSE]
            /\ UNCHANGED <<idx, errors, printed>>
    /\ UNCHANGED <<tasks, config, sectionNameToGID, ignoredSections, loc, results, calls,
                   dryRun, cancelled, remoteSections, remoteTasks, sections, inflight>>
    /\ UNCHANGED extRest

\* one iteration of `for _, move := range taskMoves` of ExecuteTaskMoves, up to
\* the point where MoveTaskToSection has sent its request; a request the context
\* stops is not sent and the call fails at once
ExecuteTaskMovesIter ==
    /\ pc = "execute"
    /\ idx <= Len(moves)
    /\ LET args == << moves[idx].SectionGID, moves[idx].Task.GID >>
           line == Out("moving", moves[idx].Task.GID, moves[idx].SectionName, 0)
       IN  IF ContextStops(cancelled)
           THEN /\ calls' = Append(calls, Call("MoveTaskToSection", args, FALSE, << >>))
                /\ printed' = printed \o << line, Out("moveError", moves[idx].Task.GID, "", 0) >>
                /\ errors' = errors + 1
                /\ idx' = idx + 1
                /\ UNCHANGED <<pc, inflight>>
           ELSE /\ inflight' = Request("MoveTaskToSection", args)
                /\ printed' = Append(printed, line)
                /\ pc' = "moving"
                /\ UNCHANGED <<calls, errors, idx>>
    /\ UNCHANGED <<inputs, moves, results, dryRun, cancelled, remoteSections, remoteTasks,
                   sections, categorizedTasks, ret>>
    /\ UNCHANGED extRest

\* A variant that leaves the loop at the first failed move
MoveTaskToSectionReturn_Abort ==
    /\ pc = "moving"
    /\ \E ok \in BOOLEAN :
          /\ ok => CanSucceed(inflight)
          /\ calls' = Append(calls, Answered(inflight, ok, << >>))
          /\ errors' = IF ok THEN errors ELSE errors + 1
          /\ printed' = IF ok THEN printed
                        ELSE Append(printed, Out("moveError", inflight.args[2], "", 0))
          /\ idx' = IF ok THEN idx + 1 ELSE Len(moves) + 1
          /\ remoteTasks' = remoteTasks
    /\ pc' = "execute"
    /\ inflight' = NoRequest
    /\ UNCHANGED <<inputs, moves, results, dryRun, cancelled, remoteSections,
                   sections, categorizedTasks, ret>>
    /\ UNCHANGED extRest

\* A variant that puts the tasks back where they were fetched when a move fails
MoveTaskToSectionReturn_Rollback ==
    /\ pc = "moving"
    /\ \E ok \in BOOLEAN :
          /\ ok => CanSucceed(inflight)
          /\ calls' = Append(calls, Answered(inflight, ok, << >>))
          /\ errors' = IF ok THEN errors ELSE errors + 1
          /\ printed' = IF ok THEN printed
                        ELSE Append(printed, Out("moveError", inflight.args[2], "", 0))
          /\ idx' = idx + 1
          /\ remoteTasks' = IF ok THEN remoteTasks ELSE tasks
    /\ pc' = "execute"
    /\ inflight' = NoRequest
    /\ UNCHANGED <<inputs, moves, results, dryRun, cancelled, remoteSections,
                   sections, categorizedTasks, ret>>
    /\ UNCHANGED extRest

\* MoveTaskToSection returns, and the rest of the iteration of the loop of
\* ExecuteTaskMoves: the call returns nil when the service executed the request
\* and the response was read; it returns an error, which the loop counts, when
\* the service refused the request, and also when the request was executed but
\* the response did not arrive before the context was done or could not be read
MoveTaskToSectionReturn ==
    /\ pc = "moving"
    /\ \E ok \in BOOLEAN :
          /\ ok => CanSucceed(inflight)
          /\ calls' = Append(calls, Answered(inflight, ok, << >>))
          /\ errors' = IF ok THEN errors ELSE errors + 1
          /\ printed' = IF ok THEN printed
                        ELSE Append(printed, Out("moveError", inflight.args[2], "", 0))
          /\ idx' = idx + 1
          /\ remoteTasks' = remoteTasks
    /\ pc' = "execute"
    /\ inflight' = NoRequest
    /\ UNCHANGED <<inputs, moves, results, dryRun, cancelled, remoteSections,
                   sections, categorizedTasks, ret>>
    /\ UNCHANGED extRest

\* the end of ExecuteTaskMoves (`if errors > 0`, the line "Moved %d tasks"), and
\* the caller's test of the error it returns
ExecuteTaskMovesReturn ==
    /\ pc = "execute"
    /\ idx > Len(moves)
    /\ pc' = "done"
    /\ ret' = IF errors > 0
              THEN [nilMap |-> TRUE, map |-> EmptyMap, err |-> TRUE]
              ELSE [nilMap |-> FALSE, map |-> categorizedTasks, err |-> FALSE]
    /\ printed' = IF errors > 0 THEN printed
                  ELSE Append(printed, Out("moved", "", "", Len(moves)))
    /\ UNCHANGED <<inputs, idx, moves, results, calls, dryRun, cancelled, remoteSections,
                   remoteTasks, sections, categorizedTasks, errors, inflight>>
    /\ UNCHANGED extRest

\* the program is started again, after a run that printed its tasks, with the
\* same configuration and against the service as the run left it; printed is
\* the output of the new run
RunAgain ==
    /\ pc = "done"
    /\ run < MaxRuns
    /\ ~ret.err
    /\ run' = run + 1
    /\ prevRun' = [dryRun |-> dryRun, now |-> now, moves |-> moves,
                   returnedMap |-> ~ret.nilMap,
                   allOk |-> \A i \in 1..Len(calls) : calls[i].ok,
                   remoteSections |-> remoteSections, remoteTasks |-> remoteTasks]
    /\ dryRun' \in BOOLEAN
    /\ cancelled' = FALSE
    /\ tasks' = << >>
    /\ sectionNameToGID' = EmptyMap
    /\ ignoredSections' = {}
    /\ now' = PlanNow
    /\ pc' = "start"
    /\ idx' = 1
    /\ moves' = << >>
    /\ calls' = << >>
    /\ sections' = << >>
    /\ categorizedTasks' = EmptyMap
    /\ errors' = 0
    /\ ret' = NoReturn
    /\ printed' = << >>
    /\ UNCHANGED <<config, loc, results, remoteSections, remoteTasks, inflight>>
    /\ UNCHANGED <<configFile, fileData, categoryToSection, pending,
                   totalTasks, sectionsWithTasks>>

NextOrganize ==
    \/ CancelContext
    \/ ServiceExecutes
    \/ GetCurrentUser
    \/ GetCurrentUserReturn
    \/ GetWorkspaces
    \/ GetWorkspacesReturn
    \/ GetUserTaskList
    \/ GetUserTaskListReturn
    \/ GetSectionsForProject
    \/ GetSectionsForProjectReturn
    \/ EnsureRequiredSectionsIter
    \/ CreateSectionReturn
    \/ GetTasksFromUserTaskList
    \/ GetTasksFromUserTaskListReturn
    \/ PlanMoves
    \/ ExecuteTaskMovesIter
    \/ MoveTaskToSectionReturn
    \/ ExecuteTaskMovesReturn

SpecOrganize == InitOrganize /\ [][NextOrganize]_vars

(***************************************************************************)
(* SpecTwoRuns: the program run twice in a row against one service         *)
(***************************************************************************)
NextTwoRuns ==
    \/ NextOrganize
    \/ RunAgain

SpecTwoRuns == InitOrganize /\ [][NextTwoRuns]_vars

(***************************************************************************)
(* Vocabulary of the claims about OrganizeTasks                            *)
(***************************************************************************)
Done == pc = "done"

\* the positions in `calls` of the calls of one client method
CallsOf(op) == SelectSeq(calls, LAMBDA c : c.op = op)

MoveCalls == CallsOf("MoveTaskToSection")

CreateCalls == CallsOf("CreateSection")

AnyFailed(cs) == \E i \in 1..Len(cs) : ~cs[i].ok

\* the calls that change the service
Mutating == {"CreateSection", "MoveTaskToSection"}

\* the calls of steps 1-3 and 6
Reading == {"GetCurrentUser", "GetWorkspaces", "GetUserTaskList",
            "GetSectionsForProject", "GetTasksFromUserTaskList"}

\* a failed read, or a list of zero workspaces
FatalRead(c) ==
    /\ c.op \in Reading
    /\ \/ ~c.ok
       \/ c.op = "GetWorkspaces" /\ c.result = 0

ReturnedError == Done /\ ret.err /\ ret.nilMap

ReturnedMap == Done /\ ~ret.err /\ ~ret.nilMap

\* C12: in a run with dryRun set, whatever the sections, tasks and
\* configuration of the service, neither CreateSection nor MoveTaskToSection
\* is ever called: none has returned and none waits for its response.
C12_DryRunNoMutation ==
    dryRun =>
        /\ \A i \in 1..Len(calls) : calls[i].op \notin Mutating
        /\ inflight.op \notin Mutating

\* a finished dry run that planned a move and found a configured section missing
C12_Witness ==
    /\ ReturnedMap
    /\ dryRun
    /\ Len(moves) > 0
    /\ \E i \in 1..Len(RequiredSections(config)) :
          RequiredSections(config)[i] \notin DOMAIN sectionNameToGID

\* C13: ExecuteTaskMoves calls MoveTaskToSection exactly once for every
\* planned move, in plan order, also after an earlier call has failed, and it
\* returns one aggregate error iff at least one of those calls failed.
C13_EveryMoveAttempted ==
    /\ pc \in {"execute", "moving"} =>
          /\ Len(MoveCalls) = idx - 1
          /\ \A i \in 1..Len(MoveCalls) :
                MoveCalls[i].args = << moves[i].SectionGID, moves[i].Task.GID >>
    /\ pc = "moving" =>
          inflight.args = << moves[idx].SectionGID, moves[idx].Task.GID >>
    /\ (Done /\ ~dryRun /\ Len(moves) > 0) =>
          /\ Len(MoveCalls) = Len(moves)
          /\ \A i \in 1..Len(moves) :
                MoveCalls[i].args = << moves[i].SectionGID, moves[i].Task.GID >>
          /\ ret.err <=> AnyFailed(MoveCalls)

\* two planned moves, the first failed, the second succeeded, one error returned
C13_Witness ==
    /\ Done
    /\ ~dryRun
    /\ ~cancelled
    /\ Len(moves) = 2
    /\ Len(MoveCalls) = 2
    /\ ~MoveCalls[1].ok
    /\ MoveCalls[2].ok
    /\ ret.err

\* C14: in a non-dry run, a failure of CreateSection for one missing
\* configured section is not fatal: the run goes on to fetch the tasks, and
\* when no other call fails OrganizeTasks returns no error.
C14_CreationFailureNonFatal ==
    (Done /\ ~dryRun /\ AnyFailed(CreateCalls)) =>
        /\ Len(CallsOf("GetTasksFromUserTaskList")) = 1
        /\ (\A i \in 1..Len(calls) : ~calls[i].ok => calls[i].op = "CreateSection")
              => ~ret.err

\* C15: when GetCurrentUser, GetWorkspaces, GetUserTaskList,
\* GetSectionsForProject or GetTasksFromUserTaskList fails, or GetWorkspaces
\* returns zero workspaces, OrganizeTasks returns an error and no map and makes
\* no client call after the failing one; no MoveTaskToSection is ever issued.
C15_FatalReadAborts ==
    \A i \in 1..Len(calls) :
        FatalRead(calls[i]) =>
            /\ i = Len(calls)
            /\ ReturnedError
            /\ Len(MoveCalls) = 0

\* GetSectionsForProject failed, with the context alive, in a run that is not
\* dry and has a task outside its section
C15_Witness ==
    /\ ReturnedError
    /\ ~dryRun
    /\ ~cancelled
    /\ Len(calls) = 4
    /\ calls[4].op = "GetSectionsForProject"
    /\ ~calls[4].ok
    /\ Len(remoteTasks) > 0

\* the run is past EnsureRequiredSections, which returned nil
Ensured ==
    /\ ~dryRun
    /\ \/ pc \in {"fetchTasks", "tasksWait", "plan", "execute", "moving"}
       \/ Done /\ Len(CallsOf("GetTasksFromUserTaskList")) = 1

\* the sections that GetSectionsForProject returned
FetchedSections == CallsOf("GetSectionsForProject")[1].result

\* the section names that CreateSection was called with, in call order
CreatedNames == [i \in 1..Len(CreateCalls) |-> CreateCalls[i].args[2]]

\* C16: in a non-dry run in which no CreateSection call fails, after
\* EnsureRequiredSections every one of the five configured section names has
\* an identifier in the name-to-identifier map, CreateSection was called only
\* (and once) for the configured names absent from the fetched sections, and
\* each created section was appended to the section list.
C16_RequiredSectionsExist ==
    Ensured =>
        LET required == { RequiredSections(config)[i] : i \in 1..Len(RequiredSections(config)) }
        IN  /\ \A i \in 1..Len(CreateCalls) : CreateCalls[i].ok
            /\ \A name \in required :
                  /\ name \in DOMAIN sectionNameToGID
                  /\ \E i \in 1..Len(sections) :
                        sections[i] = Section(sectionNameToGID[name], name)
            /\ { CreatedNames[i] : i \in 1..Len(CreatedNames) }
                  = required \ SectionNamesOf(FetchedSections)
            /\ \A i, j \in 1..Len(CreatedNames) : i # j => CreatedNames[i] # CreatedNames[j]
            /\ sections = FetchedSections \o [i \in 1..Len(CreateCalls) |-> CreateCalls[i].result]

\* four sections created for five configured names, two of which are one name
C16_Witness ==
    /\ Ensured
    /\ pc = "fetchTasks"
    /\ config.NoDate = config.DueLater
    /\ Len(CreateCalls) = 4
    /\ Len(sections) = Len(FetchedSections) + 4

InSeq(x, seq) == \E i \in 1..Len(seq) : seq[i] = x

\* C17: each planned move's task appears in the categorized map (the one the
\* run returns) under a category whose configured section name is the move's
\* SectionName; the map and the plan are computed from one reading of the clock.
C17_PlanAgreesWithDisplay ==
    /\ \A j \in 1..Len(moves) :
          \E c \in DOMAIN categorizedTasks :
             /\ InSeq(moves[j].Task, categorizedTasks[c])
             /\ GetCategoryToSectionMap(config)[c] = moves[j].SectionName
    /\ ReturnedMap => ret.map = categorizedTasks
    /\ pc \in {"execute", "moving", "done"} /\ Len(CallsOf("GetTasksFromUserTaskList")) = 1
          /\ ~AnyFailed(CallsOf("GetTasksFromUserTaskList")) =>
          /\ categorizedTasks = CategorizeTasks(tasks, now, loc)
          /\ moves = CalculateTaskMoves(tasks, config, sectionNameToGID, ignoredSections, now, loc)

\* a returned map and two moves into different sections
C17_Witness ==
    /\ ReturnedMap
    /\ Len(moves) = 2
    /\ moves[1].SectionName # moves[2].SectionName
    /\ \E c \in DOMAIN ret.map : InSeq(moves[2].Task, ret.map[c])

\* the list of category c in a categorized map
ListOf(m, c) == IF c \in DOMAIN m THEN m[c] ELSE << >>

\* m holds each of the tasks ts exactly once, under its own category, in the
\* order of ts within the category
Covers(m, ts) ==
    /\ DOMAIN m \subseteq TaskCategory
    /\ \A c \in TaskCategory :
          ListOf(m, c) = SelectSeq(ts, LAMBDA t : GetTaskCategory(t, now, loc) = c)
    /\ \A i \in 1..Len(ts) :
          Cardinality({ <<c, k>> \in TaskCategory \X (1..Len(ts)) :
                           k <= Len(ListOf(m, c)) /\ m[c][k] = ts[i] }) = 1

\* CategorizeTasks has run on the fetched tasks
Categorized ==
    /\ pc \in {"execute", "moving", "done"}
    /\ Len(CallsOf("GetTasksFromUserTaskList")) = 1
    /\ ~AnyFailed(CallsOf("GetTasksFromUserTaskList"))

\* C18: the map returned by a successful OrganizeTasks, and the map of
\* CategorizeTasks in every run, contains each fetched task exactly once,
\* under exactly one of the five categories (its own), in fetched order within
\* the category, tasks in ignored sections included: for each of these the
\* run writes one line, in fetched order.
C18_MapCoversEveryTask ==
    /\ ReturnedMap => Covers(ret.map, tasks)
    /\ Categorized =>
          /\ Covers(categorizedTasks, tasks)
          /\ SelectSeq(printed, LAMBDA l : l.kind = "skip") = SkipLines(tasks, ignoredSections)

\* two fetched tasks of one category, the first of them in an ignored section
\* and named by a line of the output
C18_Witness ==
    /\ ReturnedMap
    /\ Len(tasks) = 2
    /\ CurrentName(tasks[1]) \in ignoredSections
    /\ ListOf(ret.map, Overdue) = tasks
    /\ \E i \in 1..Len(printed) : printed[i].kind = "skip" /\ printed[i].task = tasks[1].GID

\* the task of the service with the identifier of task t
RemoteTask(t) == remoteTasks[CHOOSE i \in 1..Len(remoteTasks) : remoteTasks[i].GID = t.GID]

\* C19 as stated: after a non-dry run every task whose MoveTaskToSection call
\* succeeded is in its planned target section, every other task (its call
\* failed, or no move was planned for it) is still in the section it was
\* fetched in, and no task is the subject of a second call.
C19_NoRollbackNoCollateral ==
    (Done /\ ~dryRun) =>
        /\ \A i \in 1..Len(tasks) :
              IF \E j \in 1..Len(MoveCalls) :
                    MoveCalls[j].ok /\ MoveCalls[j].args[2] = tasks[i].GID
              THEN \E k \in 1..Len(moves) :
                      /\ moves[k].Task = tasks[i]
                      /\ RemoteTask(tasks[i]).AssigneeSection.Name = moves[k].SectionName
              ELSE RemoteTask(tasks[i]) = tasks[i]
        /\ \A i, j \in 1..Len(MoveCalls) :
              i # j => MoveCalls[i].args[2] # MoveCalls[j].args[2]

\* the service has executed a MoveTaskToSection request for task t
MoveExecuted(t) ==
    \/ \E j \in 1..Len(MoveCalls) : MoveCalls[j].executed /\ MoveCalls[j].args[2] = t.GID
    \/ inflight.op = "MoveTaskToSection" /\ inflight.executed /\ inflight.args[2] = t.GID

\* C19, amended: in a non-dry run a task is in its planned target section when
\* the service executed its MoveTaskToSection request, which is so for every
\* call that succeeded and can be so for a call that returned an error; every
\* other task (its request was not executed, or no move was planned for it) is
\* still in the section it was fetched in; no task is the subject of a second
\* call.
C19_MovedIffExecuted ==
    ~dryRun =>
        /\ \A i \in 1..Len(tasks) :
              IF MoveExecuted(tasks[i])
              THEN \E k \in 1..Len(moves) :
                      /\ moves[k].Task = tasks[i]
                      /\ RemoteTask(tasks[i]).AssigneeSection.Name = moves[k].SectionName
              ELSE RemoteTask(tasks[i]) = tasks[i]
        /\ \A j \in 1..Len(MoveCalls) : MoveCalls[j].ok => MoveCalls[j].executed
        /\ \A i, j \in 1..Len(MoveCalls) :
              i # j => MoveCalls[i].args[2] # MoveCalls[j].args[2]

\* the first of two moves succeeded, the second returned an error after the
\* service had executed it, the context alive: both tasks have moved
C19_Witness ==
    /\ ReturnedError
    /\ ~dryRun
    /\ ~cancelled
    /\ Len(MoveCalls) = 2
    /\ MoveCalls[1].ok
    /\ ~MoveCalls[2].ok
    /\ MoveCalls[2].executed
    /\ RemoteTask(tasks[1]) # tasks[1]
    /\ RemoteTask(tasks[2]) # tasks[2]

\* the sections of the service before the step are the first ones after it
SectionsRemain ==
    /\ Len(remoteSections') >= Len(remoteSections)
    /\ SubSeq(remoteSections', 1, Len(remoteSections)) = remoteSections

\* the service changes in the step only by executing the request that the
\* client sent while its context was not done, for a task not yet moved
OnlyInFlight ==
    /\ remoteSections' # remoteSections =>
          /\ inflight.op = "CreateSection"
          /\ ~inflight.ctxDone
          /\ remoteSections' = Append(remoteSections, CreatedSection(inflight.args[2]))
    /\ Len(remoteTasks') = Len(remoteTasks)
    /\ \A i \in 1..Len(remoteTasks) :
          remoteTasks'[i] # remoteTasks[i] =>
              /\ inflight.op = "MoveTaskToSection"
              /\ ~inflight.ctxDone
              /\ inflight.args[2] = remoteTasks[i].GID
              /\ \A j \in 1..Len(MoveCalls) : MoveCalls[j].args[2] # remoteTasks[i].GID

\* C20: every client call gets the context of the run, so a call made once it
\* is cancelled or past its deadline does not succeed and its request is not
\* executed (no CreateSection, no MoveTaskToSection), OrganizeTasks returns an
\* error when a call was made after that point, and from that point on the
\* sections created and the tasks moved stay as they are: the service changes
\* at most by the one request that was sent before it.
C20_CancellationBoundsRun ==
    /\ [](\A i \in 1..Len(calls) : calls[i].ctxDone => ~calls[i].ok /\ ~calls[i].executed)
    /\ []((Done /\ \E i \in 1..Len(calls) : calls[i].ctxDone) => ReturnedError)
    /\ [][cancelled => SectionsRemain /\ OnlyInFlight]_vars

\* a section created and a task moved, then the context cancelled, then a
\* move that failed
C20_Witness ==
    /\ ReturnedError
    /\ cancelled
    /\ \E i \in 1..Len(CreateCalls) : CreateCalls[i].ok /\ ~CreateCalls[i].ctxDone
    /\ Len(MoveCalls) = 2
    /\ MoveCalls[1].ok
    /\ ~MoveCalls[1].ctxDone
    /\ MoveCalls[2].ctxDone
    /\ RemoteTask(tasks[1]) # tasks[1]

\* the identifier of the last section of secs named name
LastGID(secs, name) ==
    secs[CHOOSE i \in 1..Len(secs) :
            /\ secs[i].Name = name
            /\ \A j \in (i + 1)..Len(secs) : secs[j].Name # name].GID

\* C24: CreateSectionNameToGIDMap maps every name that occurs in the section
\* list to the identifier of the last section in the list with that name, and
\* contains no other name; a move toward a duplicated name uses the last-seen
\* identifier.
C24_LastSectionWins ==
    /\ (Len(CallsOf("GetSectionsForProject")) = 1 /\ Len(CreateCalls) = 0
           /\ ~AnyFailed(CallsOf("GetSectionsForProject"))) =>
          /\ sectionNameToGID = CreateSectionNameToGIDMap(FetchedSections)
          /\ DOMAIN sectionNameToGID = SectionNamesOf(FetchedSections)
          /\ \A name \in DOMAIN sectionNameToGID :
                sectionNameToGID[name] = LastGID(FetchedSections, name)
    /\ \A k \in 1..Len(moves) :
          moves[k].SectionGID = LastGID(sections, moves[k].SectionName)

\* a move toward "Due later", a name that two fetched sections have
C24_Witness ==
    /\ Done
    /\ Len(moves) > 0
    /\ moves[1].SectionName = "Due later"
    /\ moves[1].SectionGID = "section_Due later_2"
    /\ Cardinality({ i \in 1..Len(FetchedSections) : FetchedSections[i].Name = "Due later" }) = 2

\* the position of a client method in the pipeline of OrganizeTasks
Rank(op) ==
    CASE op = "GetCurrentUser" -> 1
      [] op = "GetWorkspaces" -> 2
      [] op = "GetUserTaskList" -> 3
      [] op = "GetSectionsForProject" -> 4
      [] op = "CreateSection" -> 5
      [] op = "GetTasksFromUserTaskList" -> 6
      [] op = "MoveTaskToSection" -> 7

\* C27: the calls of one run come in the order GetCurrentUser, GetWorkspaces,
\* GetUserTaskList, GetSectionsForProject, the CreateSection calls,
\* GetTasksFromUserTaskList, the MoveTaskToSection calls; no move is issued
\* before the task list has been fetched, every move names a fetched task and
\* a section identifier of the name-to-identifier map, and each read call is
\* made at most once.
C27_CallOrder ==
    /\ \A i, j \in 1..Len(calls) : i < j => Rank(calls[i].op) <= Rank(calls[j].op)
    /\ \A op \in Reading : Len(CallsOf(op)) <= 1
    /\ \A i \in 1..Len(calls) :
          i > 1 /\ calls[i].op \in Reading => Rank(calls[i - 1].op) = Rank(calls[i].op) - 1
                                              \/ calls[i - 1].op = "GetSectionsForProject"
    /\ \A i \in 1..Len(MoveCalls) :
          /\ Len(CallsOf("GetTasksFromUserTaskList")) = 1
          /\ ~AnyFailed(CallsOf("GetTasksFromUserTaskList"))
          /\ \E k \in 1..Len(tasks) : tasks[k].GID = MoveCalls[i].args[2]
          /\ \E name \in DOMAIN sectionNameToGID :
                sectionNameToGID[name] = MoveCalls[i].args[1]

\* a run that made every kind of call
C27_Witness ==
    /\ Done
    /\ Len(CreateCalls) > 0
    /\ Len(MoveCalls) = 2
    /\ \A op \in Reading : Len(CallsOf(op)) = 1

\* C28: within one run CreateSection is called at most once per distinct
\* section name, also when two categories are configured with one section
\* name, and never for a name present in the fetched sections.
C28_NoDuplicateCreation ==
    Len(CreateCalls) > 0 =>
        /\ \A i, j \in 1..Len(CreatedNames) : i # j => CreatedNames[i] # CreatedNames[j]
        /\ \A i \in 1..Len(CreatedNames) : CreatedNames[i] \notin SectionNamesOf(FetchedSections)

\* two categories configured with the name "Due later", which was missing and
\* has been created
C28_Witness ==
    /\ ReturnedMap
    /\ config.NoDate = config.DueLater
    /\ \E i \in 1..Len(CreatedNames) : CreatedNames[i] = config.NoDate
    /\ "Due later" \notin SectionNamesOf(FetchedSections)

\* the task of the call with another due date
WithDue(d) == [tasks[1] EXCEPT !.DueOn = d]

\* C29: for a fixed reference instant and two present due dates d1 <= d2,
\* GetTaskCategory(d1) <= GetTaskCategory(d2) in the order Overdue < DueToday
\* < DueThisWeek < DueLater.
C29_CategorizerMonotone ==
    (CategoryReturned /\ ~IsZero(tasks[1].DueOn)) =>
        \A d \in Dues \ {ZeroDate} :
            /\ tasks[1].DueOn.t <= d.t => results[1] <= GetTaskCategory(WithDue(d), now, loc)
            /\ d.t <= tasks[1].DueOn.t => GetTaskCategory(WithDue(d), now, loc) <= results[1]

\* a due date of this week under a location with a transition, with a due
\* date of today before it and a later one after it
C29_Witness ==
    /\ CategoryReturned
    /\ ~IsZero(tasks[1].DueOn)
    /\ loc.dst # 0
    /\ results[1] = DueThisWeek
    /\ \E d \in Dues \ {ZeroDate} :
          d.t < tasks[1].DueOn.t /\ GetTaskCategory(WithDue(d), now, loc) = DueToday
    /\ \E d \in Dues \ {ZeroDate} :
          d.t > tasks[1].DueOn.t /\ GetTaskCategory(WithDue(d), now, loc) = DueLater

(***************************************************************************)
(* Properties of two runs in a row (specification SpecTwoRuns)             *)
(***************************************************************************)
\* the run under way follows a non-dry run in which every call succeeded
AfterCleanRun == run > 1 /\ ~prevRun.dryRun /\ prevRun.returnedMap /\ prevRun.allOk

\* C25: after a non-dry run in which every section creation and every move
\* succeeded, a second run against the resulting remote state, with the same
\* configuration and a reference instant on the same local calendar day,
\* plans zero moves and issues no MoveTaskToSection and no CreateSection call.
C25_SecondRunPlansNothing ==
    AfterCleanRun =>
        /\ Len(CreateCalls) = 0
        /\ (Categorized /\ LocalDay(now, loc) = LocalDay(prevRun.now, loc)) =>
              /\ moves = << >>
              /\ Len(MoveCalls) = 0

\* a second run, later on the same day, after a run that created a section and
\* moved two tasks
C25_Witness ==
    /\ AfterCleanRun
    /\ ReturnedMap
    /\ ~dryRun
    /\ Len(prevRun.moves) = 2
    /\ Len(remoteSections) > Len(OrgBaseSections) + 1
    /\ now # prevRun.now
    /\ LocalDay(now, loc) = LocalDay(prevRun.now, loc)
    /\ Len(tasks) = 2

\* a non-dry run that has planned, after a dry run with the same clock reading
\* against the same sections and tasks
AfterDryRun ==
    /\ run > 1
    /\ prevRun.dryRun
    /\ prevRun.returnedMap
    /\ ~dryRun
    /\ Categorized
    /\ now = prevRun.now
    /\ tasks = prevRun.remoteTasks

\* C26: for the same remote sections and tasks, the same configuration and the
\* same reference instant, the plan of a dry run is the same list as the plan
\* of a non-dry run in which all section creations succeed.
C26_DryRunFidelity == AfterDryRun => prevRun.moves = moves

\* C26, amended: the plan of the dry run is the plan of the non-dry run without
\* the moves into sections that did not exist when the sections were fetched;
\* the two plans are the same list when every configured section existed.
C26_DryRunPlanIsSubPlan ==
    AfterDryRun =>
        /\ prevRun.moves =
              SelectSeq(moves, LAMBDA m : m.SectionName \in SectionNamesOf(prevRun.remoteSections))
        /\ Len(CreateCalls) = 0 => prevRun.moves = moves

\* a dry run that planned one move, and a non-dry run that planned it and a
\* second one into a section it had to create
C26_Witness ==
    /\ AfterDryRun
    /\ Len(prevRun.moves) = 1
    /\ Len(moves) = 2
    /\ \E i \in 1..Len(CreatedNames) : \E k \in 1..Len(moves) :
          moves[k].SectionName = CreatedNames[i]

(***************************************************************************)
(* config.LoadConfiguration and the configuration file                     *)
(***************************************************************************)
\* core.SectionConfig{}: the zero value
ZeroSectionConfig ==
    [Overdue |-> "", DueToday |-> "", DueThisWeek |-> "", DueLater |-> "",
     NoDate |-> "", IgnoredSections |-> << >>]

\* JSON values: a string, a number, null, an array of strings
Str(x) == [kind |-> "string", val |-> x]
Num == [kind |-> "number", val |-> 0]
Null == [kind |-> "null", val |-> 0]
Arr(xs) == [kind |-> "array", val |-> xs]

Member(key, value) == [key |-> key, value |-> value]

\* the `json:"..."` tags of SectionConfig
StringFields == {"overdue", "due_today", "due_this_week", "due_later", "no_date"}
Fields == StringFields \cup {"ignored_sections"}

\* encoding/json matches an object key with a field tag exactly or, failing
\* that, without regard to case
FieldOf(key) ==
    CASE key = "No_Date" -> "no_date"
      [] OTHER -> key

\* config after storing the decoded value v into the field tagged f
SetField(cfg, f, v) ==
    CASE f = "overdue" -> [cfg EXCEPT !.Overdue = v]
      [] f = "due_today" -> [cfg EXCEPT !.DueToday = v]
      [] f = "due_this_week" -> [cfg EXCEPT !.DueThisWeek = v]
      [] f = "due_later" -> [cfg EXCEPT !.DueLater = v]
      [] f = "no_date" -> [cfg EXCEPT !.NoDate = v]
      [] f = "ignored_sections" -> [cfg EXCEPT !.IgnoredSections = v]

\* whether a JSON value can be stored into the field tagged f
Fits(f, value) ==
    IF f = "ignored_sections" THEN value.kind = "array" ELSE value.kind = "string"

RECURSIVE UnmarshalFrom(_, _, _)
\* the struct and the error of json.Unmarshal after the first k members of an
\* object, decoding into the struct `start`: unknown keys are skipped, null
\* leaves the field alone, a value of the wrong type leaves the field alone and
\* is the error, a repeated key overwrites
UnmarshalFrom(start, ms, k) ==
    IF k = 0 THEN [config |-> start, err |-> FALSE]
    ELSE LET before == UnmarshalFrom(start, ms, k - 1)
             f == FieldOf(ms[k].key)
             value == ms[k].value
         IN  IF f \notin Fields \/ value.kind = "null" THEN before
             ELSE IF ~Fits(f, value) THEN [before EXCEPT !.err = TRUE]
             ELSE [before EXCEPT !.config = SetField(before.config, f, value.val)]

\* A variant that decodes into the default configuration
Unmarshal_MergeDefaults(doc) ==
    IF ~doc.syntax \/ doc.top # "object"
    THEN [config |-> DefaultSectionConfig, err |-> TRUE]
    ELSE UnmarshalFrom(DefaultSectionConfig, doc.members, Len(doc.members))

\* var config core.SectionConfig; err := json.Unmarshal(configData, &config)
Unmarshal(doc) ==
    IF ~doc.syntax \/ doc.top # "object"
    THEN [config |-> ZeroSectionConfig, err |-> TRUE]
    ELSE UnmarshalFrom(ZeroSectionConfig, doc.members, Len(doc.members))

\* loadSectionConfig(configPath), with fd what os.ReadFile gives for the path
loadSectionConfig(fd) ==
    IF ~fd.ok THEN [config |-> ZeroSectionConfig, err |-> TRUE]
    ELSE IF Unmarshal(fd.doc).err THEN [config |-> ZeroSectionConfig, err |-> TRUE]
    ELSE [config |-> Unmarshal(fd.doc).config, err |-> FALSE]

(***************************************************************************)
(* Inputs of LoadConfiguration                                             *)
(***************************************************************************)
\* the members a configuration file is made of, in file order: the five
\* category keys, the ignored sections, a key the program does not know, a
\* null, a key in another case, a value of the wrong type
ConfigMembers ==
    << Member("overdue", Str("Late")),
       Member("due_today", Str("Today")),
       Member("due_this_week", Str("Week")),
       Member("due_later", Str("Later")),
       Member("no_date", Str("Inbox")),
       Member("ignored_sections", Arr(<< "Waiting For" >>)),
       Member("extra", Str("x")),
       Member("due_later", Null),
       Member("No_Date", Str("Someday")),
       Member("overdue", Num) >>

RECURSIVE Pick(_, _, _)
\* the members of ms at the positions S, up to position k, in order
Pick(ms, S, k) ==
    IF k = 0 THEN << >>
    ELSE IF k \in S THEN Append(Pick(ms, S, k - 1), ms[k])
    ELSE Pick(ms, S, k - 1)

Document(syntax, top, members) == [syntax |-> syntax, top |-> top, members |-> members]

\* the contents of the file: not JSON, a JSON array, a JSON object
Documents ==
    { Document(FALSE, "object", << >>), Document(TRUE, "array", << >>) }
    \cup { Document(TRUE, "object", Pick(ConfigMembers, S, Len(ConfigMembers)))
           : S \in SUBSET (1..Len(ConfigMembers)) }

\* what os.ReadFile gives: an error, or the contents
FileStates == {NoFile} \cup { [ok |-> TRUE, doc |-> d] : d \in Documents }

ConfigFiles == {"default", "config.json"}

(***************************************************************************)
(* SpecConfig: main loads the configuration                                *)
(***************************************************************************)
InitConfig ==
    /\ tasks = << >>
    /\ config = ZeroSectionConfig
    /\ sectionNameToGID = EmptyMap
    /\ ignoredSections = {}
    /\ now = PlanNow
    /\ loc = UTC
    /\ pc = "main"
    /\ idx = 1
    /\ moves = << >>
    /\ results = << >>
    /\ calls = << >>
    /\ NoRun
    /\ run = 1
    /\ prevRun = NoPrev
    /\ configFile \in ConfigFiles
    /\ fileData \in FileStates
    /\ categoryToSection = EmptyMap
    /\ pending = {}
    /\ printed = << >>
    /\ totalTasks = 0
    /\ sectionsWithTasks = 0

\* A variant that ends the program when the file does not load
LoadConfiguration_Fatal ==
    /\ pc = "main"
    /\ IF configFile = "default"
       THEN /\ config' = DefaultSectionConfig
            /\ pc' = "configured"
            /\ printed' = printed
       ELSE IF ~loadSectionConfig(fileData).err
       THEN /\ config' = loadSectionConfig(fileData).config
            /\ pc' = "configured"
            /\ printed' = printed
       ELSE /\ config' = config
            /\ pc' = "exit"
            /\ printed' = Append(printed, [kind |-> "configError"])
    /\ UNCHANGED <<tasks, sectionNameToGID, ignoredSections, now, loc, idx, moves,
                   results, calls, orch>>
    /\ UNCHANGED <<run, prevRun, configFile, fileData, categoryToSection, pending,
                   totalTasks, sectionsWithTasks>>

\* conf := config.LoadConfiguration(*configFile)
LoadConfiguration ==
    /\ pc = "main"
    /\ IF configFile = "default"
       THEN /\ config' = DefaultSectionConfig
            /\ printed' = printed
       ELSE IF ~loadSectionConfig(fileData).err
       THEN /\ config' = loadSectionConfig(fileData).config
            /\ printed' = printed
       ELSE /\ config' = DefaultSectionConfig
            /\ printed' = Append(printed, [kind |-> "configError"])
    /\ pc' = "configured"
    /\ UNCHANGED <<tasks, sectionNameToGID, ignoredSections, now, loc, idx, moves,
                   results, calls, orch>>
    /\ UNCHANGED <<run, prevRun, configFile, fileData, categoryToSection, pending,
                   totalTasks, sectionsWithTasks>>

NextConfig == LoadConfiguration

SpecConfig == InitConfig /\ [][NextConfig]_vars

(***************************************************************************)
(* Properties of LoadConfiguration (specification SpecConfig)              *)
(***************************************************************************)
Configured == pc = "configured"

\* C21: LoadConfiguration returns the built-in default configuration when the
\* path is the sentinel "default", when the file cannot be read, and when its
\* content is not valid JSON; in none of these cases does the run end.
C21_ConfigFallback ==
    /\ pc \in {"main", "configured"}
    /\ Configured =>
          /\ configFile = "default" => config = DefaultSectionConfig
          /\ ~fileData.ok => config = DefaultSectionConfig
          /\ (fileData.ok /\ ~fileData.doc.syntax) => config = DefaultSectionConfig

\* a file that is not JSON: the defaults are returned and the failure is printed
C21_Witness ==
    /\ Configured
    /\ configFile # "default"
    /\ fileData.ok
    /\ ~fileData.doc.syntax
    /\ config = DefaultSectionConfig
    /\ Len(printed) = 1

\* the file is a JSON object whose members all have the type of their field
Loads ==
    /\ fileData.ok
    /\ fileData.doc.syntax
    /\ fileData.doc.top = "object"
    /\ \A i \in 1..Len(fileData.doc.members) :
          LET m == fileData.doc.members[i]
          IN  \/ FieldOf(m.key) \notin Fields
              \/ m.value.kind = "null"
              \/ Fits(FieldOf(m.key), m.value)

\* the object of the file has a member for the field tagged f
HasKey(f) ==
    \E i \in 1..Len(fileData.doc.members) : FieldOf(fileData.doc.members[i].key) = f

\* the section name that cfg gives for the field tagged f
NameFor(cfg, f) ==
    CASE f = "overdue" -> cfg.Overdue
      [] f = "due_today" -> cfg.DueToday
      [] f = "due_this_week" -> cfg.DueThisWeek
      [] f = "due_later" -> cfg.DueLater
      [] f = "no_date" -> cfg.NoDate

\* C30: when the configuration file is valid JSON but omits one of the five
\* category keys, the returned configuration has the empty string for that
\* category; the built-in defaults are returned only when the file fails to
\* load or the sentinel is used.
C30_NoMergeWithDefaults ==
    Configured =>
        /\ (configFile # "default" /\ Loads) =>
              \A f \in StringFields : ~HasKey(f) => NameFor(config, f) = ""
        /\ config = DefaultSectionConfig => (configFile = "default" \/ ~Loads)

\* a file with every category key but "overdue"
C30_Witness ==
    /\ Configured
    /\ configFile # "default"
    /\ Loads
    /\ ~HasKey("overdue")
    /\ \A f \in StringFields \ {"overdue"} : HasKey(f)
    /\ config.Overdue = ""
    /\ config.DueToday = "Today"

(***************************************************************************)
(* ui.DisplayTasks                                                         *)
(***************************************************************************)
\* one piece of output: the title, a group header (category, section name,
\* number of tasks), a task line (ordinal, task, due date if present), the
\* summary (total, groups), the "No tasks found" line, the dry-run notice
Line(kind, category, name, count, due) ==
    [kind |-> kind, category |-> category, name |-> name, count |-> count,
     groups |-> 0, due |-> due]

\* "Found %d tasks in %d sections"
SummaryLine(total, groups) ==
    [kind |-> "summary", category |-> NoDate, name |-> "Found", count |-> total,
     groups |-> groups, due |-> [present |-> FALSE, day |-> 0]]

\* dueStr: nothing for a zero DueOn, else the calendar date
DueStr(task) ==
    IF IsZero(task.DueOn) THEN [present |-> FALSE, day |-> 0]
    ELSE [present |-> TRUE, day |-> DateDay(task.DueOn)]

NoDue == [present |-> FALSE, day |-> 0]

\* the lines of one group: the header and the numbered tasks
GroupLines(category, sectionName, ts) ==
    << Line("group", category, sectionName, Len(ts), NoDue) >>
    \o [i \in 1..Len(ts) |-> Line("task", category, ts[i].GID, i, DueStr(ts[i]))]

\* A variant of the loop body without the test `if len(tasks) > 0`
DisplayTasksIter_NoEmptyTest ==
    /\ pc = "display"
    /\ pending # {}
    /\ \E category \in pending :
          LET sectionName == categoryToSection[category]
              ts == IF category \in DOMAIN categorizedTasks
                    THEN categorizedTasks[category] ELSE << >>
          IN  /\ pending' = pending \ {category}
              /\ printed' = printed \o GroupLines(category, sectionName, ts)
              /\ sectionsWithTasks' = sectionsWithTasks + 1
              /\ totalTasks' = totalTasks + Len(ts)
    /\ UNCHANGED <<inputs, pc, idx, moves, results, calls, orch>>
    /\ UNCHANGED <<run, prevRun, configFile, fileData, categoryToSection>>

\* main after OrganizeTasks returned an error: `fmt.Printf("Error: %v\n", err)`
\* and os.Exit(1)
MainExit ==
    /\ pc = "done"
    /\ ret.err
    /\ printed' = Append(printed, Out("error", "", "", 0))
    /\ pc' = "exited"
    /\ UNCHANGED <<inputs, idx, moves, results, calls, orch>>
    /\ UNCHANGED extRest

\* main after OrganizeTasks returned a map: the call of DisplayTasks and its
\* statements before the loop
DisplayTasksCall ==
    /\ pc = "done"
    /\ ~ret.err
    /\ categoryToSection' = GetCategoryToSectionMap(config)
    /\ pending' = DOMAIN GetCategoryToSectionMap(config)
    /\ printed' = Append(printed, Line("title", NoDate, "My Asana Tasks:", 0, NoDue))
    /\ totalTasks' = 0
    /\ sectionsWithTasks' = 0
    /\ pc' = "display"
    /\ UNCHANGED <<inputs, idx, moves, results, calls, orch>>
    /\ UNCHANGED <<run, prevRun, configFile, fileData>>

\* one iteration of `for category, sectionName := range categoryToSection`:
\* the order in which a range loop visits the keys of a map is not specified,
\* so the key is any of those not visited yet
DisplayTasksIter ==
    /\ pc = "display"
    /\ pending # {}
    /\ \E category \in pending :
          LET sectionName == categoryToSection[category]
              ts == IF category \in DOMAIN categorizedTasks
                    THEN categorizedTasks[category] ELSE << >>
          IN  /\ pending' = pending \ {category}
              /\ IF Len(ts) > 0
                 THEN /\ printed' = printed \o GroupLines(category, sectionName, ts)
                      /\ sectionsWithTasks' = sectionsWithTasks + 1
                      /\ totalTasks' = totalTasks + Len(ts)
                 ELSE UNCHANGED <<printed, sectionsWithTasks, totalTasks>>
    /\ UNCHANGED <<inputs, pc, idx, moves, results, calls, orch>>
    /\ UNCHANGED <<run, prevRun, configFile, fileData, categoryToSection>>

\* the statements of DisplayTasks after the loop
DisplayTasksReturn ==
    /\ pc = "display"
    /\ pending = {}
    /\ printed' = printed
          \o << IF totalTasks = 0
                THEN Line("none", NoDate, "No tasks found in any section", 0, NoDue)
                ELSE SummaryLine(totalTasks, sectionsWithTasks) >>
          \o (IF dryRun THEN << Line("dryRunNotice", NoDate, "This was a dry run", 0, NoDue) >>
              ELSE << >>)
    /\ pc' = "displayed"
    /\ UNCHANGED <<inputs, idx, moves, results, calls, orch>>
    /\ UNCHANGED <<run, prevRun, configFile, fileData, categoryToSection, pending,
                   totalTasks, sectionsWithTasks>>

(***************************************************************************)
(* SpecDisplay: main runs OrganizeTasks and displays the map it returned   *)
(***************************************************************************)
\* main is about to call core.OrganizeTasks
InitDisplay == InitOrganize

NextDisplay ==
    \/ NextOrganize
    \/ MainExit
    \/ DisplayTasksCall
    \/ DisplayTasksIter
    \/ DisplayTasksReturn

SpecDisplay == InitDisplay /\ [][NextDisplay]_vars

(***************************************************************************)
(* Properties of DisplayTasks (specification SpecDisplay)                  *)
(***************************************************************************)
Displayed == pc = "displayed"

LinesOf(kind) == SelectSeq(printed, LAMBDA line : line.kind = kind)

\* the categories with at least one task in the map
NonEmpty == { c \in DOMAIN categorizedTasks : Len(categorizedTasks[c]) > 0 }

\* the number of tasks in the map
MapTotal ==
    Len(ListOf(categorizedTasks, Overdue)) + Len(ListOf(categorizedTasks, DueToday))
    + Len(ListOf(categorizedTasks, DueThisWeek)) + Len(ListOf(categorizedTasks, DueLater))
    + Len(ListOf(categorizedTasks, NoDate))

\* C22: DisplayTasks prints the non-empty groups in the order of the five
\* categories (Overdue, DueToday, DueThisWeek, DueLater, NoDate), which is the
\* same order for every call with the same arguments.
C22_GroupsInCategoryOrder ==
    Displayed =>
        \A i, j \in 1..Len(LinesOf("group")) :
            i < j => LinesOf("group")[i].category < LinesOf("group")[j].category

\* C23: DisplayTasks prints no group for a category with zero tasks; the
\* summary's task total is the number of tasks in the categorized map and its
\* group count is the number of categories with at least one task; the
\* "nothing found" line is printed exactly when the total is zero.
C23_DisplayCounts ==
    Displayed =>
        /\ \A i \in 1..Len(LinesOf("group")) : LinesOf("group")[i].count > 0
        /\ { LinesOf("group")[i].category : i \in 1..Len(LinesOf("group")) } = NonEmpty
        /\ Len(LinesOf("group")) = Cardinality(NonEmpty)
        /\ totalTasks = MapTotal
        /\ sectionsWithTasks = Cardinality(NonEmpty)
        /\ Len(LinesOf("none")) = (IF MapTotal = 0 THEN 1 ELSE 0)
        /\ Len(LinesOf("summary")) = (IF MapTotal = 0 THEN 0 ELSE 1)
        /\ \A i \in 1..Len(LinesOf("summary")) :
              /\ LinesOf("summary")[i].count = MapTotal
              /\ LinesOf("summary")[i].groups = Cardinality(NonEmpty)

\* two tasks in two groups, three categories without tasks
C23_Witness ==
    /\ Displayed
    /\ MapTotal = 2
    /\ Cardinality(NonEmpty) = 2
    /\ Len(LinesOf("group")) = 2
    /\ Len(LinesOf("summary")) = 1
    /\ Len(LinesOf("none")) = 0

====
